---- MODULE Spec2Model ----
(***************************************************************************)
(* Recursive Model Index (learned index) of Deeveshizm/learned-indexes.     *)
(*                                                                         *)
(* The model follows RecursiveModelIndex (build, lookup, lower_bound,      *)
(* upper_bound), LinearModel and NeuralNetModel.  C++ doubles are modelled *)
(* as exact rationals [n, d] (d > 0), extended with NaN and the two        *)
(* sentinels DBL_MAX / lowest that build uses to start its min/max folds;  *)
(* std::min / std::max keep their C++ definition ((b < a) ? b : a and      *)
(* (a < b) ? b : a), which is what decides their result on a NaN.          *)
(* static_cast<size_t>(double) truncates toward zero and is undefined for  *)
(* a NaN or a value outside the range of size_t.                           *)
(* The rationals are what the doubles hold whenever every intermediate     *)
(* value is a dyadic rational; elsewhere the doubles are the rationals     *)
(* rounded, which can change a result only where a cast truncates a value  *)
(* that is a positive integer here (the double may lie just below it).     *)
(* Faithful(ix, key) singles out the runs on which no cast is of that kind *)
(* and no model is abstract: on them lookup returns what the program       *)
(* built from this source returns.                                         *)
(* Containers are 1-based sequences; every index the code computes is kept *)
(* 0-based and shifted by one where a sequence is accessed.                *)
(***************************************************************************)
EXTENDS Integers, Sequences, FiniteSets, TLC

\* ------------------------------------------------------------------ bounds
\* largest key of a build input (keys are 0..MaxKey)
MaxKey == 4
\* largest number of samples of a build input
MaxLen == 4
\* largest number of samples of a build input of SpecRecall
MaxLenRecall == 5
\* largest key of a build input of SpecRecall
MaxKeyRecall == 7
\* largest key and largest number of samples of a build input of SpecPair
MaxKeyPair == 2
MaxLenPair == 2
\* largest number of build calls on the index of SpecRebuild, and the largest
\* key and number of samples of its build inputs
MaxBuilds == 2
MaxKeyRebuild == 1
MaxLenRebuild == 3
\* largest key and number of samples of a build input of SpecStats
MaxKeyStats == 3
MaxLenStats == 3
\* number of concurrent readers of SpecReaders, and the largest key and number
\* of samples of its build input
NumReaders == 2
MaxKeyReaders == 1
MaxLenReaders == 2
\* largest key and number of samples of a build input of SpecInvalid
MaxKeyInvalid == 2
MaxLenInvalid == 3
\* SpecSampling takes total_records from 1..SmallRecords and from within
\* SampleSlack of the multiples of the sample cap up to MaxCaps times the cap
SmallRecords == 3
SampleSlack == 1
MaxCaps == 2
\* SpecRoute: the largest second-stage width, and the largest key and number
\* of samples of a build input
MaxWidthRoute == 9
MaxKeyRoute == 3
MaxLenRoute == 4
\* largest number of samples of a bucket of SpecFit
MaxLenFit == 5
\* largest number of samples of SpecScale
MaxLenScale == 3
\* largest key and number of samples of the inputs of SpecReserved
MaxKeyReserved == 2
MaxLenReserved == 2
\* largest PAGE_SIZE, key and number of entries of the trees of SpecBTree
MaxPageSize == 3
MaxKeyBTree == 3
MaxLenBTree == 7
\* hidden_size of the model of SpecScale (Config's default)
HiddenSizeScale == 8

\* ------------------------------------------------------------ double values
Abs(x) == IF x < 0 THEN -x ELSE x
Min(a, b) == IF b < a THEN b ELSE a

RECURSIVE Gcd(_, _)
Gcd(a, b) == IF b = 0 THEN a ELSE Gcd(b, a % b)

\* the rational n/d in lowest terms (d > 0)
Norm(n, d) == LET g == Gcd(Abs(n), d) IN [n |-> n \div g, d |-> d \div g]

\* the double holding the integer i
D(i) == [n |-> i, d |-> 1]
NaN == [n |-> 0, d |-> 0]
\* std::numeric_limits<double>::max() and ::lowest()
DBL_MAX == [n |-> 1, d |-> 0]
DBL_LOWEST == [n |-> -1, d |-> 0]

IsNaN(x) == x.d = 0 /\ x.n = 0
IsFinite(x) == x.d > 0

\* a + b; a sentinel absorbs every finite addend (they differ by > 2^900)
DAdd(a, b) ==
    IF IsNaN(a) \/ IsNaN(b) THEN NaN
    ELSE IF ~IsFinite(a) THEN a
    ELSE IF ~IsFinite(b) THEN b
    ELSE Norm(a.n * b.d + b.n * a.d, a.d * b.d)

DNeg(a) == [n |-> -a.n, d |-> a.d]
DSub(a, b) == DAdd(a, DNeg(b))

DMul(a, b) ==
    IF IsNaN(a) \/ IsNaN(b) THEN NaN
    ELSE IF ~IsFinite(a) \/ ~IsFinite(b)
         THEN (IF a.n * b.n = 0 THEN D(0)
               ELSE IF a.n * b.n > 0 THEN DBL_MAX ELSE DBL_LOWEST)
    ELSE Norm(a.n * b.n, a.d * b.d)

\* a / b for a finite b # 0; 0/0 is NaN
DDiv(a, b) ==
    IF IsNaN(a) \/ IsNaN(b) \/ b.n = 0 THEN NaN
    ELSE IF ~IsFinite(a) THEN (IF b.n > 0 THEN a ELSE DNeg(a))
    ELSE IF b.n > 0 THEN Norm(a.n * b.d, a.d * b.n)
    ELSE Norm(-(a.n * b.d), a.d * (-b.n))

\* a < b; every comparison with a NaN is false
DLess(a, b) ==
    IF IsNaN(a) \/ IsNaN(b) THEN FALSE
    ELSE IF ~IsFinite(a) /\ ~IsFinite(b) THEN a.n < b.n
    ELSE IF ~IsFinite(a) THEN a.n < 0
    ELSE IF ~IsFinite(b) THEN b.n > 0
    ELSE a.n * b.d < b.n * a.d

DLeq(a, b) == ~IsNaN(a) /\ ~IsNaN(b) /\ ~DLess(b, a)
DAbs(a) == IF a.n < 0 THEN DNeg(a) ELSE a

\* std::min(a, b) and std::max(a, b)
StdMin(a, b) == IF DLess(b, a) THEN b ELSE a
StdMax(a, b) == IF DLess(a, b) THEN b ELSE a

\* static_cast<size_t>(x): defined for a finite x > -1, truncating toward zero
CastDefined(x) == IsFinite(x) /\ x.n > -x.d
ToSizeT(x) == IF x.n < 0 THEN 0 ELSE x.n \div x.d

\* whether x is a dyadic rational: the doubles hold these exactly (every value
\* of the model is far below 2^53), so arithmetic on them does not round
RECURSIVE IsPow2(_)
IsPow2(d) == d = 1 \/ (d > 1 /\ d % 2 = 0 /\ IsPow2(d \div 2))
IsDyadic(x) == IsFinite(x) /\ IsPow2(x.d)

\* |x| < 1e-10, with 1e-10 split as 1e-5 * 1e-5 to stay inside 32-bit integers
Pow10_5 == 100000
BelowEps(x) ==
    /\ IsFinite(x)
    /\ \/ x.n = 0
       \/ Abs(x.n) < Pow10_5 /\ Abs(x.n) * Pow10_5 <= (x.d - 1) \div Pow10_5

\* ------------------------------------------------------------- LinearModel
\* std::make_unique<LinearModel>(): value-initialised, slope = intercept = 0.
\* fidelity is not a member: it records how the parameters computed here relate
\* to the doubles of the program: "exact" (equal), "rounded" (equal up to the
\* rounding of the doubles) or "abstract" (see NeuralTrain).
LinearNew == [kind |-> "linear", slope |-> D(0), intercept |-> D(0), fidelity |-> "exact"]

LinearPredict(m, key) == DAdd(DMul(m.slope, key), m.intercept)

\* the sums of the regression loop over data[j..]
RECURSIVE LinearSums(_, _, _)
LinearSums(data, j, acc) ==
    IF j > Len(data) THEN acc
    ELSE LET key == D(data[j][1])
             pos == D(data[j][2])
         IN LinearSums(data, j + 1,
                [sum_x  |-> DAdd(acc.sum_x, key),
                 sum_y  |-> DAdd(acc.sum_y, pos),
                 sum_xy |-> DAdd(acc.sum_xy, DMul(key, pos)),
                 sum_x2 |-> DAdd(acc.sum_x2, DMul(key, key))])

LinearTrain(m, data) ==
    IF Len(data) = 0 THEN m
    ELSE LET n == D(Len(data))
             s == LinearSums(data, 1,
                     [sum_x |-> D(0), sum_y |-> D(0), sum_xy |-> D(0), sum_x2 |-> D(0)])
             mean_x == DDiv(s.sum_x, n)
             mean_y == DDiv(s.sum_y, n)
             denominator == DSub(s.sum_x2, DMul(DMul(n, mean_x), mean_x))
             slope == IF BelowEps(denominator) THEN D(0)
                      ELSE DDiv(DSub(s.sum_xy, DMul(DMul(n, mean_x), mean_y)), denominator)
             intercept == IF BelowEps(denominator) THEN mean_y
                          ELSE DSub(mean_y, DMul(slope, mean_x))
         IN [m EXCEPT !.slope = slope, !.intercept = intercept,
                      !.fidelity = IF IsDyadic(mean_x) /\ IsDyadic(mean_y) /\ IsDyadic(slope)
                                   THEN "exact" ELSE "rounded"]

\* ---------------------------------------------------------- NeuralNetModel
\* Config::hidden_size default
DefaultHiddenSize == 8

\* sizes of layer l (0-based) of a network with num_layers layers
LayerInputSize(hidden_size, l) == IF l = 0 THEN 1 ELSE hidden_size
LayerOutputSize(hidden_size, num_layers, l) ==
    IF l = num_layers - 1 THEN 1 ELSE hidden_size

\* the constructor: num_layers weight matrices, the last one with one output
NeuralNew(hidden_size, num_layers) ==
    [kind |-> "neural", hidden_size |-> hidden_size, num_layers |-> num_layers,
     weights |-> [l \in 1..num_layers |->
                    [i \in 1..(LayerInputSize(hidden_size, l - 1)
                               * LayerOutputSize(hidden_size, num_layers, l - 1))
                       |-> D(0)]],
     biases |-> [l \in 1..num_layers |->
                    [i \in 1..LayerOutputSize(hidden_size, num_layers, l - 1) |-> D(0)]],
     x_min |-> D(0), x_max |-> D(1), x_range |-> D(1), y_max |-> D(1),
     use_log |-> FALSE, fidelity |-> "exact"]

\* std::log(key + 1.0), from below in steps of ln 2 (taken as 693/1000); it is
\* applied only when max_key / (min_key + 1) > 100
RECURSIVE Log2Floor(_)
Log2Floor(i) == IF i <= 1 THEN 0 ELSE 1 + Log2Floor(i \div 2)
LogPlus1(key) ==
    IF ~CastDefined(key) THEN NaN
    ELSE DMul(D(Log2Floor(ToSizeT(key) + 1)), [n |-> 693, d |-> 1000])

Transform(use_log, key) == IF use_log THEN LogPlus1(key) ELSE key

\* The weights mini-batch SGD leaves after its 100 epochs.  With n = 1 the
\* target pos / y_max_ divides by y_max_ = 0, the first gradient is NaN and
\* every weight and bias of the output layer ends NaN.  With n >= 2 the
\* arithmetic of the epochs (a fixed function of the data, the PRNG being
\* seeded with 42 inside train) is not computed here: outcome is the pair
\* [w, b] it ends with, every weight taking w and every bias b (fidelity
\* "abstract").
\* train on n >= 1 samples whose first key is min_key and last key max_key
NeuralTrainKeys(m, n, min_key, max_key, outcome) ==
         LET use_log == DLess(D(100), DDiv(max_key, DAdd(min_key, D(1))))
             x_min == Transform(use_log, min_key)
             x_max == Transform(use_log, max_key)
             x_range0 == DSub(x_max, x_min)
             x_range == IF x_range0 = D(0) THEN D(1) ELSE x_range0
             y_max == D(n - 1)
             w == IF y_max = D(0) THEN NaN ELSE outcome.w
             b == IF y_max = D(0) THEN NaN ELSE outcome.b
         IN [m EXCEPT !.use_log = use_log, !.x_min = x_min, !.x_max = x_max,
                      !.x_range = x_range, !.y_max = y_max,
                      !.fidelity = IF y_max = D(0) THEN "exact" ELSE "abstract",
                      !.weights = [l \in DOMAIN m.weights |->
                                     [i \in DOMAIN m.weights[l] |-> w]],
                      !.biases = [l \in DOMAIN m.biases |->
                                     [i \in DOMAIN m.biases[l] |-> b]]]

NeuralTrain(m, data, outcome) ==
    IF Len(data) = 0 THEN m
    ELSE NeuralTrainKeys(m, Len(data), D(data[1][1]), D(data[Len(data)][1]), outcome)

\* sum = biases[l][j] + SUM_i activations[i] * weights[l][i * output_size + j]
RECURSIVE NeuronSum(_, _, _, _, _, _)
NeuronSum(m, l, j, output_size, activations, i) ==
    IF i >= Len(activations) THEN m.biases[l + 1][j + 1]
    ELSE DAdd(NeuronSum(m, l, j, output_size, activations, i + 1),
              DMul(activations[i + 1], m.weights[l + 1][i * output_size + j + 1]))

\* the forward pass from layer l on: ReLU on every layer but the last
RECURSIVE Forward(_, _, _)
Forward(m, l, activations) ==
    IF l >= m.num_layers THEN activations
    ELSE LET output_size == LayerOutputSize(m.hidden_size, m.num_layers, l)
             next_activations ==
                [j \in 1..output_size |->
                    LET sum == NeuronSum(m, l, j - 1, output_size, activations, 0)
                    IN IF l < m.num_layers - 1 THEN StdMax(D(0), sum) ELSE sum]
         IN Forward(m, l + 1, next_activations)

NeuralPredict(m, key) ==
    LET transformed_key == Transform(m.use_log, key)
        x == DDiv(DSub(transformed_key, m.x_min), m.x_range)
        activations == Forward(m, 0, <<x>>)
    IN DMul(activations[1], m.y_max)

\* Model::predict, dispatched on the dynamic type
Predict(m, key) ==
    IF m.kind = "neural" THEN NeuralPredict(m, key) ELSE LinearPredict(m, key)

\* ------------------------------------------------- RecursiveModelIndex::build
\* operator< of std::pair<double, size_t>
PairLess(a, b) == a[1] < b[1] \/ (a[1] = b[1] /\ a[2] < b[2])

\* std::sort(data.begin(), data.end()): the ascending arrangement of the pairs
RECURSIVE InsertPair(_, _)
InsertPair(p, s) ==
    IF Len(s) = 0 THEN <<p>>
    ELSE IF PairLess(p, s[1]) THEN <<p>> \o s
    ELSE <<s[1]>> \o InsertPair(p, Tail(s))

RECURSIVE SortPairs(_)
SortPairs(data) ==
    IF Len(data) = 0 THEN <<>> ELSE InsertPair(data[1], SortPairs(Tail(data)))

\* std::vector::resize(n, fill): the first n old elements, then fill
Resize(seq, n, fill) == [i \in 1..n |-> IF i <= Len(seq) THEN seq[i] ELSE fill]

\* a default-constructed Stage and an empty unique_ptr<Model>
EmptyStage == [models |-> <<>>, min_errors |-> <<>>, max_errors |-> <<>>]
NullModel == [kind |-> "null"]

\* the min / max folds of error = pred - actual_pos over model_data[j..]
RECURSIVE ErrorBounds(_, _, _, _)
ErrorBounds(model, model_data, j, acc) ==
    IF j > Len(model_data) THEN acc
    ELSE LET pred == Predict(model, D(model_data[j][1]))
             error == DSub(pred, D(model_data[j][2]))
         IN ErrorBounds(model, model_data, j + 1,
                [min_err |-> StdMin(acc.min_err, error),
                 max_err |-> StdMax(acc.max_err, error)])

\* the next-stage model of a sample with the clamped prediction scaled by one
\* model too many and the index not bounded by the number of models
BuildRouteUnclamped(model, key, total_records, next_stage_size) ==
    ToSizeT(DMul(DDiv(StdMax(D(0), StdMin(Predict(model, D(key)), D(total_records - 1))),
                      D(total_records)),
                 D(next_stage_size + 1)))

\* the next-stage model a sample is routed to by build (0-based)
BuildRoute(model, key, total_records, next_stage_size) ==
    LET pred0 == Predict(model, D(key))
        pred == StdMax(D(0), StdMin(pred0, D(total_records - 1)))
        next_model_idx == ToSizeT(DMul(DDiv(pred, D(total_records)), D(next_stage_size)))
    IN Min(next_model_idx, next_stage_size - 1)

\* the push_back of every sample of model_data[j..] into its next-stage bucket
RECURSIVE RouteData(_, _, _, _, _, _)
RouteData(model, model_data, j, total_records, next_stage_size, buckets) ==
    IF j > Len(model_data) THEN buckets
    ELSE LET next_model_idx ==
                BuildRoute(model, model_data[j][1], total_records, next_stage_size)
         IN RouteData(model, model_data, j + 1, total_records, next_stage_size,
                [buckets EXCEPT ![next_model_idx + 1] = Append(@, model_data[j])])

\* the model build creates for a non-empty bucket, trained on it
TrainModel(config, stage_idx, model_data, outcome) ==
    IF stage_idx = 0 /\ config.num_hidden_layers > 0
    THEN NeuralTrain(NeuralNew(config.hidden_size, config.num_hidden_layers),
                     model_data, outcome)
    ELSE LinearTrain(LinearNew, model_data)

\* the loop over model_idx of one stage; acc = [stage, next], next being
\* stage_data[stage_idx + 1]
RECURSIVE BuildModels(_, _, _, _, _, _, _)
BuildModels(config, total_records, outcome, stage_idx, stage_data, model_idx, acc) ==
    IF model_idx >= config.stage_sizes[stage_idx + 1] THEN acc
    ELSE LET model_data == stage_data[model_idx + 1]
         IN IF Len(model_data) = 0
            THEN BuildModels(config, total_records, outcome, stage_idx, stage_data,
                     model_idx + 1,
                     [acc EXCEPT !.stage.models[model_idx + 1] = LinearNew])
            ELSE LET model == TrainModel(config, stage_idx, model_data, outcome)
                     e == ErrorBounds(model, model_data, 1,
                              [min_err |-> DBL_MAX, max_err |-> DBL_LOWEST])
                     next == IF stage_idx + 1 < Len(config.stage_sizes)
                             THEN RouteData(model, model_data, 1, total_records,
                                      config.stage_sizes[stage_idx + 2], acc.next)
                             ELSE acc.next
                 IN BuildModels(config, total_records, outcome, stage_idx, stage_data,
                        model_idx + 1,
                        [stage |-> [models |-> [acc.stage.models EXCEPT
                                                   ![model_idx + 1] = model],
                                    min_errors |-> [acc.stage.min_errors EXCEPT
                                                   ![model_idx + 1] = e.min_err],
                                    max_errors |-> [acc.stage.max_errors EXCEPT
                                                   ![model_idx + 1] = e.max_err]],
                         next |-> next])

\* the loop over stage_idx; stage_data is the bucket array of stage stage_idx
RECURSIVE BuildStages(_, _, _, _, _, _)
BuildStages(config, total_records, outcome, stage_idx, stages, stage_data) ==
    IF stage_idx >= Len(config.stage_sizes) THEN stages
    ELSE LET num_models == config.stage_sizes[stage_idx + 1]
             old == stages[stage_idx + 1]
             resized == [models |-> Resize(old.models, num_models, NullModel),
                         min_errors |-> Resize(old.min_errors, num_models, D(0)),
                         max_errors |-> Resize(old.max_errors, num_models, D(0))]
             next0 == IF stage_idx + 1 < Len(config.stage_sizes)
                      THEN [m \in 1..config.stage_sizes[stage_idx + 2] |-> <<>>]
                      ELSE <<>>
             acc == BuildModels(config, total_records, outcome, stage_idx, stage_data,
                        0, [stage |-> resized, next |-> next0])
         IN BuildStages(config, total_records, outcome, stage_idx + 1,
                [stages EXCEPT ![stage_idx + 1] = acc.stage], acc.next)

\* whether build(data) reads stage_data[0] or stage_sizes[0] out of range
BuildOutOfRange(config, data) ==
    Len(data) > 0 /\ Len(config.stage_sizes) = 0

\* build(data) on the index ix; outcome stands for what SGD leaves (NeuralTrain).
\* With an empty stage_sizes the read of stage_data[0] is out of range: the
\* result is the index as that access finds it.
BuildIndex(ix, data, outcome) ==
    IF Len(data) = 0 THEN ix
    ELSE LET sorted == SortPairs(data)
             total_records == Len(sorted)
             stage_data0 == [m \in 1..ix.config.stage_sizes[1] |->
                               IF m = 1 THEN sorted ELSE <<>>]
         IN [ix EXCEPT
               !.total_records = total_records,
               !.sorted_keys = @ \o [i \in 1..total_records |-> sorted[i][1]],
               !.sorted_positions = @ \o [i \in 1..total_records |-> i - 1],
               !.stages = IF BuildOutOfRange(ix.config, data) THEN <<>>
                          ELSE BuildStages(ix.config, total_records, outcome, 0,
                                   Resize(ix.stages, Len(ix.config.stage_sizes), EmptyStage),
                                   stage_data0)]

\* ------------------------------------------------ RecursiveModelIndex::lookup
\* the next-stage model lookup selects from a prediction (0-based)
LookupRoute(prediction, total_records, next_stage_size) ==
    ToSizeT(StdMax(D(0),
                   StdMin(DMul(DDiv(prediction, D(total_records)), D(next_stage_size)),
                          D(next_stage_size - 1))))

\* the traversal loop from stage stage_idx on: [model_idx, prediction] at its end
RECURSIVE Traverse(_, _, _, _, _)
Traverse(ix, key, stage_idx, model_idx, prediction) ==
    IF stage_idx >= Len(ix.stages)
    THEN [model_idx |-> model_idx, prediction |-> prediction]
    ELSE LET model == ix.stages[stage_idx + 1].models[model_idx + 1]
         IN IF model.kind = "null"
            THEN Traverse(ix, key, stage_idx + 1, model_idx, prediction)
            ELSE LET p == Predict(model, key)
                 IN IF stage_idx + 1 < Len(ix.stages)
                    THEN Traverse(ix, key, stage_idx + 1,
                             LookupRoute(p, ix.total_records,
                                         Len(ix.stages[stage_idx + 2].models)),
                             p)
                    ELSE Traverse(ix, key, stage_idx + 1, model_idx, p)

\* std::lower_bound over keys[first..last) (0-based, first <= last <= size)
RECURSIVE StdLowerBound(_, _, _, _)
StdLowerBound(keys, first, last, key) ==
    IF first >= last THEN last
    ELSE IF ~(keys[first + 1] < key) THEN first
    ELSE StdLowerBound(keys, first + 1, last, key)

\* the binary search of lookup over [search_start, search_end) and its result:
\* the leaf reached, the window, whether the run has undefined behaviour (a
\* cast of a double outside size_t, or an iterator range outside the key
\* array) and the value returned when it has none
SearchRange(ix, k, model_idx, pos_estimate, cast_ub, search_start, search_end) ==
    LET range_ub == search_start > search_end \/ search_end > Len(ix.sorted_keys)
        it == StdLowerBound(ix.sorted_keys, search_start, search_end, k)
    IN [model_idx |-> model_idx, pos_estimate |-> pos_estimate,
        ub |-> cast_ub \/ range_ub,
        search_start |-> IF cast_ub THEN 0 ELSE search_start,
        search_end |-> IF cast_ub THEN 0 ELSE search_end,
        ret |-> IF cast_ub \/ range_ub THEN 0
                ELSE IF it = Len(ix.sorted_keys) THEN ix.total_records ELSE it]

\* the casts of the window's two ends to size_t, and the search between them
LookupSearch(ix, k, model_idx, pos_estimate, start_d, end_d) ==
    SearchRange(ix, k, model_idx, pos_estimate,
        ~CastDefined(start_d) \/ ~CastDefined(end_d), ToSizeT(start_d), ToSizeT(end_d))

\* the window of lookup around pos_estimate, from the leaf's error bounds
LookupWindow(ix, k, model_idx, pos_estimate) ==
    LET last == ix.stages[Len(ix.stages)]
        min_err == last.min_errors[model_idx + 1]
        max_err == last.max_errors[model_idx + 1]
    IN LookupSearch(ix, k, model_idx, pos_estimate,
           StdMax(D(0), DAdd(D(pos_estimate), min_err)),
           StdMin(D(ix.total_records), DAdd(DAdd(D(pos_estimate), max_err), D(1))))

\* lookup after its traversal ended with t = [model_idx, prediction]
LookupLeaf(ix, k, t) ==
    LookupWindow(ix, k, t.model_idx,
        ToSizeT(StdMax(D(0), StdMin(t.prediction, D(ix.total_records - 1)))))

\* one run of lookup(key) on an index with stages and total_records # 0
LookupRun(ix, k) == LookupLeaf(ix, k, Traverse(ix, D(k), 0, 0, D(0)))

\* --------------------------------------------------------- arithmetic fidelity
\* whether static_cast<size_t>(x) of the program is ToSizeT(x): always when x is
\* computed without rounding (exact), else when x is no positive integer
CastFaithful(x, exact) == exact \/ ~(IsFinite(x) /\ x.d = 1 /\ x.n > 0)

\* the cast of (prediction / total_records) * next_stage_size in build and lookup
RouteFaithful(model, prediction, routed, total_records) ==
    /\ model.fidelity # "abstract"
    /\ CastFaithful(routed, model.fidelity = "exact"
                               /\ IsDyadic(DDiv(prediction, D(total_records))))

\* the routing casts of build for one sample, from stage stage_idx on
RECURSIVE BuildPathFaithful(_, _, _, _)
BuildPathFaithful(ix, key, stage_idx, model_idx) ==
    IF stage_idx + 1 >= Len(ix.stages) THEN TRUE
    ELSE LET model == ix.stages[stage_idx + 1].models[model_idx + 1]
             width == ix.config.stage_sizes[stage_idx + 2]
             pred == StdMax(D(0), StdMin(Predict(model, D(key)), D(ix.total_records - 1)))
         IN /\ RouteFaithful(model, pred,
                    DMul(DDiv(pred, D(ix.total_records)), D(width)), ix.total_records)
            /\ BuildPathFaithful(ix, key, stage_idx + 1,
                    BuildRoute(model, key, ix.total_records, width))

\* the three casts of lookup at the leaf model_idx
LeafFaithful(ix, key, model_idx) ==
    LET last == ix.stages[Len(ix.stages)]
        model == last.models[model_idx + 1]
        exact == model.fidelity = "exact"
        est_d == StdMax(D(0), StdMin(Predict(model, D(key)), D(ix.total_records - 1)))
        est == D(ToSizeT(est_d))
    IN /\ model.fidelity # "abstract"
       /\ CastFaithful(est_d, exact)
       /\ CastFaithful(StdMax(D(0), DAdd(est, last.min_errors[model_idx + 1])), exact)
       /\ CastFaithful(StdMin(D(ix.total_records),
                              DAdd(DAdd(est, last.max_errors[model_idx + 1]), D(1))), exact)

\* the casts of lookup(key) from stage stage_idx on
RECURSIVE LookupPathFaithful(_, _, _, _)
LookupPathFaithful(ix, key, stage_idx, model_idx) ==
    IF stage_idx + 1 >= Len(ix.stages) THEN LeafFaithful(ix, key, model_idx)
    ELSE LET model == ix.stages[stage_idx + 1].models[model_idx + 1]
             width == Len(ix.stages[stage_idx + 2].models)
             p == Predict(model, D(key))
             routed == StdMax(D(0), StdMin(DMul(DDiv(p, D(ix.total_records)), D(width)),
                                           D(width - 1)))
         IN /\ RouteFaithful(model, p, routed, ix.total_records)
            /\ LookupPathFaithful(ix, key, stage_idx + 1,
                    LookupRoute(p, ix.total_records, width))

\* ------------------------------------------------------------------- state
\* index : the RecursiveModelIndex objects constructed so far, by identity
\* call  : the query call that has returned and whose result the caller holds
\*         (NoCall between calls), with the locals of its lookup
\* sgd   : what NeuralNetModel::train's SGD has produced, per training input
VARIABLES index, call, sgd
vars == <<index, call, sgd>>

\* the value of a member no constructor has initialised
Indeterminate == -1

\* Config defaults
DefaultErrorThreshold == 128
Config(stage_sizes, num_hidden_layers) ==
    [stage_sizes |-> stage_sizes, hidden_size |-> DefaultHiddenSize,
     num_hidden_layers |-> num_hidden_layers,
     error_threshold |-> DefaultErrorThreshold, use_hybrid |-> FALSE]

\* RecursiveModelIndex(cfg): config copied, containers empty, total_records
\* not initialised.  builds and input are history: the number of build calls
\* and the argument of the last one.
NewIndex(cfg) ==
    [config |-> cfg, stages |-> <<>>, sorted_keys |-> <<>>, sorted_positions |-> <<>>,
     total_records |-> Indeterminate, builds |-> 0, input |-> <<>>]

NoCall == [op |-> "none"]
NoOutcome == [w |-> D(0), b |-> D(0)]

\* what the outcome of an undefined run of lookup may be on this index: any
\* index of the key array, one past it, or a value beyond both
UBOutcomes(ix) ==
    0..((IF ix.total_records = Indeterminate THEN 0 ELSE ix.total_records) + 1)

\* what the caller of a run of lookup can see: an undefined run may return any
\* of UBOutcomes
LookupOutcomes(ix, run) ==
    {[ret |-> r, ub |-> run.ub, search_start |-> run.search_start,
      search_end |-> run.search_end, model_idx |-> run.model_idx] :
        r \in IF run.ub THEN UBOutcomes(ix) ELSE {run.ret}}

\* lookup(key): every [ret, ub, search_start, search_end, model_idx] a run can end with
LookupResults(ix, key) ==
    IF Len(ix.stages) = 0 \/ ix.total_records = 0
    THEN {[ret |-> 0, ub |-> FALSE, search_start |-> 0, search_end |-> 0,
           model_idx |-> 0]}
    ELSE LookupOutcomes(ix, LookupRun(ix, key))

\* the scan of upper_bound from pos on
RECURSIVE UpperScan(_, _, _)
UpperScan(ix, key, pos) ==
    IF pos < ix.total_records /\ ix.sorted_keys[pos + 1] <= key
    THEN UpperScan(ix, key, pos + 1)
    ELSE pos

\* upper_bound(key): every [ret, ub] a run can end with.  The scan reads
\* total_records (indeterminate before the first build) and sorted_keys[pos].
UpperBoundResults(ix, key) ==
    UNION {IF l.ub \/ ix.total_records = Indeterminate
           THEN {[ret |-> r, ub |-> TRUE] : r \in UBOutcomes(ix)}
           ELSE {[ret |-> UpperScan(ix, key, l.ret), ub |-> FALSE]} :
             l \in LookupResults(ix, key)}

\* whether lookup(key) on the once-built index ix is computed here as the
\* program computes it (build's routing of every sample included)
Faithful(ix, key) ==
    \/ Len(ix.stages) = 0
    \/ ix.total_records = 0
    \/ /\ \A j \in 1..Len(ix.input) : BuildPathFaithful(ix, ix.input[j][1], 0, 0)
       /\ LookupPathFaithful(ix, key, 0, 0)

\* ----------------------------------------------------------------- inputs
\* the non-decreasing key sequences of 1..maxlen keys out of 0..maxkey
KeySeqs(maxlen, maxkey) ==
    UNION {{s \in [1..n -> 0..maxkey] : \A i \in 1..(n - 1) : s[i] <= s[i + 1]} :
             n \in 1..maxlen}

\* what a dataset loader delivers: sorted samples with pos = rank
Ranked(keys) == [i \in 1..Len(keys) |-> <<keys[i], i - 1>>]
\* the same keys given last-first, every pos 0 (a caller that leaves pos unset)
Unranked(keys) == [i \in 1..Len(keys) |-> <<keys[Len(keys) + 1 - i], 0>>]

StageSizeChoices == {<<1>>, <<1, 2>>, <<1, 3>>}
HiddenLayerChoices == {0, 1}
Configs == {Config(ss, nl) : ss \in StageSizeChoices, nl \in HiddenLayerChoices}
Inputs == {<<>>} \cup {Ranked(ks) : ks \in KeySeqs(MaxLen, MaxKey)}
Queries == (-1)..(MaxKey + 1)

\* the [w, b] pairs SGD may end with on n >= 2 samples (see NeuralTrain)
SGDOutcomes == {[w |-> D(1), b |-> D(0)], [w |-> [n |-> 1, d |-> 2], b |-> [n |-> 1, d |-> 4]]}

\* ------------------------------------------------------------------ actions
\* whether build trains a neural root by SGD on n >= 2 samples
UsesSGD(ix, data) ==
    ix.config.num_hidden_layers > 0 /\ Len(data) >= 2 /\ ~BuildOutOfRange(ix.config, data)
SGDInput(ix, data) ==
    <<ix.config.hidden_size, ix.config.num_hidden_layers, SortPairs(data)>>

\* index i: build(data)
Build(i, data) ==
    /\ call = NoCall
    /\ LET ix == index[i]
           in == SGDInput(ix, data)
       IN \E o \in (IF ~UsesSGD(ix, data) THEN {NoOutcome}
                    ELSE IF in \in DOMAIN sgd THEN {sgd[in]}
                    ELSE SGDOutcomes) :
            /\ index' = [index EXCEPT ![i] =
                            [BuildIndex(ix, data, o) EXCEPT
                                !.builds = @ + 1, !.input = data]]
            /\ sgd' = IF UsesSGD(ix, data) THEN (in :> o) @@ sgd ELSE sgd
    /\ UNCHANGED call

\* index i: lookup(key)
Lookup(i, key) ==
    /\ call = NoCall
    /\ \E l \in LookupResults(index[i], key) :
         call' = [op |-> "lookup", id |-> i, key |-> key, ret |-> l.ret, ub |-> l.ub,
                  search_start |-> l.search_start, search_end |-> l.search_end,
                  model_idx |-> l.model_idx]
    /\ UNCHANGED <<index, sgd>>

\* index i: lower_bound(key), which returns lookup(key)
LowerBound(i, key) ==
    /\ call = NoCall
    /\ \E l \in LookupResults(index[i], key) :
         call' = [op |-> "lower_bound", id |-> i, key |-> key, ret |-> l.ret,
                  ub |-> l.ub, search_start |-> l.search_start,
                  search_end |-> l.search_end, model_idx |-> l.model_idx]
    /\ UNCHANGED <<index, sgd>>

\* index i: upper_bound(key)
UpperBound(i, key) ==
    /\ call = NoCall
    /\ \E u \in UpperBoundResults(index[i], key) :
         call' = [op |-> "upper_bound", id |-> i, key |-> key, ret |-> u.ret,
                  ub |-> u.ub]
    /\ UNCHANGED <<index, sgd>>

\* the caller is done with the result of its call
Return ==
    /\ call # NoCall
    /\ call' = NoCall
    /\ UNCHANGED <<index, sgd>>

\* a second index object is constructed
Construct(i, cfg) ==
    /\ call = NoCall
    /\ i \notin DOMAIN index
    /\ index' = (i :> NewIndex(cfg)) @@ index
    /\ UNCHANGED <<call, sgd>>

\* ----------------------------------------------------------- specifications
\* one index of any configuration, built once and queried
Init ==
    /\ \E cfg \in Configs : index = (1 :> NewIndex(cfg))
    /\ call = NoCall
    /\ sgd = <<>>

BuildOnce == \E d \in Inputs : index[1].builds < 1 /\ Build(1, d)
DoLookup == \E k \in Queries : Lookup(1, k)
DoLowerBound == \E k \in Queries : LowerBound(1, k)
DoUpperBound == \E k \in Queries : UpperBound(1, k)

Next == BuildOnce \/ DoLookup \/ DoLowerBound \/ DoUpperBound \/ Return

Spec == Init /\ [][Next]_vars

\* linear indexes over a wider key range, built once and asked for keys
ConfigsRecall == {Config(<<1>>, 0), Config(<<1, 2>>, 0)}
InputsRecall == {Ranked(ks) : ks \in KeySeqs(MaxLenRecall, MaxKeyRecall)}
QueriesRecall == 0..MaxKeyRecall

InitRecall ==
    /\ \E cfg \in ConfigsRecall : index = (1 :> NewIndex(cfg))
    /\ call = NoCall
    /\ sgd = <<>>

BuildRecall == \E d \in InputsRecall : index[1].builds < 1 /\ Build(1, d)
LookupRecall == \E k \in QueriesRecall : Lookup(1, k)
LowerBoundRecall == \E k \in QueriesRecall : LowerBound(1, k)

NextRecall == BuildRecall \/ LookupRecall \/ LowerBoundRecall \/ Return

SpecRecall == InitRecall /\ [][NextRecall]_vars

\* two index objects, each built once, from inputs that may differ in pos only
ConfigsPair == {Config(<<1>>, 0), Config(<<1>>, 1), Config(<<1, 2>>, 0)}
InputsPair ==
    UNION {{Ranked(ks), Unranked(ks)} : ks \in KeySeqs(MaxLenPair, MaxKeyPair)}
QueriesPair == (-1)..(MaxKeyPair + 1)

InitPair ==
    /\ \E cfg \in ConfigsPair : index = (1 :> NewIndex(cfg))
    /\ call = NoCall
    /\ sgd = <<>>

ConstructPair == \E cfg \in ConfigsPair : Construct(2, cfg)
BuildPair ==
    \E i \in DOMAIN index, d \in InputsPair : index[i].builds < 1 /\ Build(i, d)
LookupPair == \E i \in DOMAIN index, k \in QueriesPair : Lookup(i, k)

NextPair == ConstructPair \/ BuildPair \/ LookupPair \/ Return

SpecPair == InitPair /\ [][NextPair]_vars

\* --------------------------------------------------------------- properties
\* an index on which build has run once, on a non-empty input
BuiltOnce(ix) == ix.builds = 1 /\ Len(ix.input) > 0

\* the caller holds the result of one of ops on a once-built index, from a run
\* without undefined behaviour that is computed here as the program computes it
Answered(ops) ==
    /\ call.op \in ops
    /\ BuiltOnce(index[call.id])
    /\ ~call.ub
    /\ Faithful(index[call.id], call.key)

\* the 0-based indices of the key array holding k
Occurrences(keys, k) == {i \in 0..(Len(keys) - 1) : keys[i + 1] = k}
FirstOccurrence(keys, k) ==
    CHOOSE i \in Occurrences(keys, k) : \A j \in Occurrences(keys, k) : i <= j
\* the number of stored keys below k, and of those not above k
CountBelow(keys, k) == Cardinality({i \in 1..Len(keys) : keys[i] < k})
CountUpTo(keys, k) == Cardinality({i \in 1..Len(keys) : keys[i] <= k})

\* C1: after build on a non-empty input with stage_sizes[0] = 1, lookup(k) and
\* lower_bound(k) of a key k of the input return the index of the first
\* occurrence of k in the sorted key array.
C1_TrainingKeyRecall ==
    (/\ Answered({"lookup", "lower_bound"})
     /\ Occurrences(index[call.id].sorted_keys, call.key) # {})
        => call.ret = FirstOccurrence(index[call.id].sorted_keys, call.key)

\* C2: for every training sample (k, r), the window [search_start, search_end)
\* lookup(k) computes from the leaf's min_error / max_error contains r.
C2_ErrorBoundSoundness ==
    Answered({"lookup"})
        => \A r \in Occurrences(index[call.id].sorted_keys, call.key) :
              call.search_start <= r /\ r < call.search_end

\* C3: after build on N >= 1 keys, lower_bound of a key greater than the
\* largest stored key returns N.
C3_RankAboveMaximum ==
    (/\ Answered({"lower_bound"})
     /\ \A i \in 1..Len(index[call.id].sorted_keys) :
           index[call.id].sorted_keys[i] < call.key)
        => call.ret = index[call.id].total_records

\* C4: [lower_bound(k), upper_bound(k)) holds exactly the indices i with
\* keys[i] = k, and is empty when k is not stored.
C4_UpperLowerConsistency ==
    Answered({"upper_bound"})
        => \A l \in LookupResults(index[call.id], call.key) :
              {i \in 0..(index[call.id].total_records - 1) : l.ret <= i /\ i < call.ret}
                 = Occurrences(index[call.id].sorted_keys, call.key)

\* C5: upper_bound(k) returns the first index p with keys[p] > k, N if there
\* is none, whether or not k is stored.
C5_UpperBoundFirstGreater ==
    Answered({"upper_bound"})
        => call.ret = CountUpTo(index[call.id].sorted_keys, call.key)

\* C6: for query keys k1 <= k2, lookup(k1) <= lookup(k2).
C6_OrderPreservation ==
    Answered({"lookup"})
        => \A k2 \in Queries :
              (call.key <= k2 /\ Faithful(index[call.id], k2))
                 => \A l \in LookupResults(index[call.id], k2) :
                       ~l.ub => call.ret <= l.ret

\* C7: on a built index, lookup's window satisfies 0 <= lo <= hi <= N, the
\* search stays inside the key array and lookup returns a value in [0, N].
C7_LookupNeverFails ==
    (/\ call.op = "lookup"
     /\ BuiltOnce(index[call.id])
     /\ Faithful(index[call.id], call.key))
        => /\ ~call.ub
           /\ 0 <= call.search_start
           /\ call.search_start <= call.search_end
           /\ call.search_end <= index[call.id].total_records
           /\ 0 <= call.ret
           /\ call.ret <= index[call.id].total_records

BuiltExactly(ix) ==
    /\ \A s \in 1..Len(ix.stages) : \A m \in 1..Len(ix.stages[s].models) :
          ix.stages[s].models[m].fidelity = "exact"
    /\ \A j \in 1..Len(ix.input) : BuildPathFaithful(ix, ix.input[j][1], 0, 0)

\* two once-built indexes of one configuration whose inputs have the same keys
SameKeysBuilt(i, j) ==
    /\ i # j
    /\ BuiltOnce(index[i]) /\ BuiltOnce(index[j])
    /\ index[i].config = index[j].config
    /\ index[i].sorted_keys = index[j].sorted_keys

\* C9: the pos of the input pairs is ignored: two inputs with the same keys
\* and different pos yield the same models, error bounds and lookup results.
C9_PositionsRederived ==
    \A i \in DOMAIN index : \A j \in DOMAIN index :
        (SameKeysBuilt(i, j) /\ BuiltExactly(index[i]) /\ BuiltExactly(index[j]))
           => /\ index[i].stages = index[j].stages
              /\ \A k \in QueriesPair :
                    LookupResults(index[i], k) = LookupResults(index[j], k)

LinearConfig(ix) == ix.config.num_hidden_layers = 0
ConstantKeys(ix) ==
    \A i \in 1..Len(ix.sorted_keys) : ix.sorted_keys[i] = ix.sorted_keys[1]

\* C11: on an index built from n >= 1 copies of one key c with a linear
\* configuration, lower_bound(c) = 0, upper_bound(c) = n and lower_bound(k) = n
\* for every k > c.
C11_ConstantKeyInput ==
    (/\ Answered({"lower_bound", "upper_bound"})
     /\ LinearConfig(index[call.id])
     /\ ConstantKeys(index[call.id]))
        => /\ (call.op = "lower_bound" /\ call.key = index[call.id].sorted_keys[1])
                 => call.ret = 0
           /\ (call.op = "upper_bound" /\ call.key = index[call.id].sorted_keys[1])
                 => call.ret = index[call.id].total_records
           /\ (call.op = "lower_bound" /\ call.key > index[call.id].sorted_keys[1])
                 => call.ret = index[call.id].total_records

\* whether the input of ix is (0, 0), (1, 1), ..., (n - 1, n - 1)
SequentialKeys(ix) ==
    \A i \in 1..Len(ix.input) : ix.input[i] = <<i - 1, i - 1>>

\* C12: on an index built from the keys 0, 1, ..., n - 1 (pos = key) with
\* stage_sizes = {1, m} and a linear root, lower_bound(k) = k for every k in
\* [0, n - 1], lower_bound(n) = n and lower_bound(-1) = 0.
C12_SequentialKeys ==
    (/\ Answered({"lower_bound"})
     /\ LinearConfig(index[call.id])
     /\ Len(index[call.id].config.stage_sizes) = 2
     /\ SequentialKeys(index[call.id]))
        => /\ (0 <= call.key /\ call.key < index[call.id].total_records)
                 => call.ret = call.key
           /\ call.key = index[call.id].total_records
                 => call.ret = index[call.id].total_records
           /\ call.key = -1 => call.ret = 0

\* one linear index on which build is called up to MaxBuilds times, with
\* queries before, between and after the builds
ConfigsRebuild == {Config(<<1>>, 0), Config(<<1, 2>>, 0)}
InputsRebuild ==
    {<<>>} \cup {Ranked(ks) : ks \in KeySeqs(MaxLenRebuild, MaxKeyRebuild)}
QueriesRebuild == (-1)..(MaxKeyRebuild + 1)

InitRebuild ==
    /\ \E cfg \in ConfigsRebuild : index = (1 :> NewIndex(cfg))
    /\ call = NoCall
    /\ sgd = <<>>

BuildRebuild == \E d \in InputsRebuild : index[1].builds < MaxBuilds /\ Build(1, d)
LookupRebuild == \E k \in QueriesRebuild : Lookup(1, k)
UpperBoundRebuild == \E k \in QueriesRebuild : UpperBound(1, k)

NextRebuild == BuildRebuild \/ LookupRebuild \/ UpperBoundRebuild \/ Return

SpecRebuild == InitRebuild /\ [][NextRebuild]_vars

\* C13: in every state reachable by build and query calls on one index, build
\* being called more than once included, the stored key array is non-decreasing.
C13_SortedKeyStore ==
    \A i \in DOMAIN index :
        \A j \in 1..(Len(index[i].sorted_keys) - 1) :
            index[i].sorted_keys[j] <= index[i].sorted_keys[j + 1]

\* ------------------------------------------------------------- statistics
\* sizeof(double) and sizeof(size_t), and sizeof(bool), of the x86-64 ABI
SizeofDouble == 8
SizeofBool == 1
\* the cap of get_average_error on the number of sampled keys
SampleCap == 10000

\* the bytes of the weights and biases of the layers from l (1-based) on
RECURSIVE LayersSize(_, _)
LayersSize(m, l) ==
    IF l > Len(m.weights) THEN 0
    ELSE (Len(m.weights[l]) + Len(m.biases[l])) * SizeofDouble + LayersSize(m, l + 1)

\* Model::get_model_size (an empty unique_ptr is skipped)
ModelSize(m) ==
    IF m.kind = "null" THEN 0
    ELSE IF m.kind = "linear" THEN SizeofDouble + SizeofDouble
    ELSE LayersSize(m, 1) + 4 * SizeofDouble + SizeofBool

\* the bytes get_total_size counts for the stages from stage s (1-based) on
RECURSIVE ModelsSize(_, _)
ModelsSize(models, m) ==
    IF m > Len(models) THEN 0 ELSE ModelSize(models[m]) + ModelsSize(models, m + 1)
RECURSIVE StagesSize(_, _)
StagesSize(ix, s) ==
    IF s > Len(ix.stages) THEN 0
    ELSE ModelsSize(ix.stages[s].models, 1)
         + Len(ix.stages[s].min_errors) * SizeofDouble
         + Len(ix.stages[s].max_errors) * SizeofDouble
         + StagesSize(ix, s + 1)

\* std::vector::capacity() of a vector of n elements: at least n, and at most
\* doubled by the growth of push_back
Capacities(n) == n..(2 * n)

\* get_total_size(): every value a run can return
TotalSizeResults(ix) ==
    {StagesSize(ix, 1) + ck * SizeofDouble + cp * SizeofDouble :
        ck \in Capacities(Len(ix.sorted_keys)),
        cp \in Capacities(Len(ix.sorted_positions))}

\* the sampling loop of get_average_error from index i on: every
\* [total_error, count, ub] it can end with.  Each term |predicted - i| is an
\* integer far below 2^53, so the double total_error holds the integer sum.
RECURSIVE AverageErrorRuns(_, _, _, _)
AverageErrorRuns(ix, i, step, acc) ==
    IF i >= ix.total_records THEN {acc}
    ELSE UNION {AverageErrorRuns(ix, i + step, step,
                    [total_error |-> acc.total_error + Abs(l.ret - i),
                     count |-> acc.count + 1,
                     ub |-> acc.ub \/ l.ub]) :
                  l \in LookupResults(ix, ix.sorted_keys[i + 1])}

\* step = total_records / std::min(total_records, size_t(10000))
SampleStep(n) == n \div Min(n, SampleCap)

\* get_average_error(): every [ret, ub, count] a run can end with.  It reads
\* total_records first (indeterminate before the first build).
AverageErrorResults(ix) ==
    IF ix.total_records = Indeterminate
    THEN {[ret |-> D(r), ub |-> TRUE, count |-> 0] : r \in UBOutcomes(ix)}
    ELSE IF ix.total_records = 0 THEN {[ret |-> D(0), ub |-> FALSE, count |-> 0]}
    ELSE {[ret |-> IF r.count > 0 THEN Norm(r.total_error, r.count) ELSE D(0),
           ub |-> r.ub, count |-> r.count] :
             r \in AverageErrorRuns(ix, 0, SampleStep(ix.total_records),
                      [total_error |-> 0, count |-> 0, ub |-> FALSE])}

\* index i: get_total_size()
GetTotalSize(i) ==
    /\ call = NoCall
    /\ \E r \in TotalSizeResults(index[i]) :
         call' = [op |-> "get_total_size", id |-> i, ret |-> r, ub |-> FALSE]
    /\ UNCHANGED <<index, sgd>>

\* get_average_error() as a statistic that is consumed: it resets the record count
GetAverageErrorResetting(i) ==
    /\ call = NoCall
    /\ \E r \in AverageErrorResults(index[i]) :
         /\ call' = [op |-> "get_average_error", id |-> i, ret |-> r.ret, ub |-> r.ub,
                     count |-> r.count]
         /\ index' = [index EXCEPT ![i].total_records = 0]
    /\ UNCHANGED sgd

\* index i: get_average_error()
GetAverageError(i) ==
    /\ call = NoCall
    /\ \E r \in AverageErrorResults(index[i]) :
         call' = [op |-> "get_average_error", id |-> i, ret |-> r.ret, ub |-> r.ub,
                  count |-> r.count]
    /\ UNCHANGED <<index, sgd>>

\* one index of any configuration, built once, with every query method
InputsStats == {<<>>} \cup {Ranked(ks) : ks \in KeySeqs(MaxLenStats, MaxKeyStats)}
QueriesStats == (-1)..(MaxKeyStats + 1)

InitStats ==
    /\ \E cfg \in Configs : index = (1 :> NewIndex(cfg))
    /\ call = NoCall
    /\ sgd = <<>>

BuildStats == \E d \in InputsStats : index[1].builds = 0 /\ Build(1, d)
LookupStats == \E k \in QueriesStats : Lookup(1, k)
LowerBoundStats == \E k \in QueriesStats : LowerBound(1, k)
UpperBoundStats == \E k \in QueriesStats : UpperBound(1, k)
GetTotalSizeStats == GetTotalSize(1)
GetAverageErrorStats == GetAverageError(1)

NextStats ==
    \/ BuildStats
    \/ LookupStats
    \/ LowerBoundStats
    \/ UpperBoundStats
    \/ GetTotalSizeStats
    \/ GetAverageErrorStats
    \/ Return

SpecStats == InitStats /\ [][NextStats]_vars

QueryOps == {"lookup", "lower_bound", "upper_bound", "get_total_size", "get_average_error"}

\* C14: a call of lookup, lower_bound, upper_bound, get_total_size or
\* get_average_error on an index that has been built leaves its stages (models,
\* widths, min/max error arrays), its key array and total_records as they were.
C14_ImmutableAfterBuild ==
    [][(call = NoCall /\ call'.op \in QueryOps /\ index[call'.id].builds >= 1)
         => /\ index'[call'.id].stages = index[call'.id].stages
            /\ index'[call'.id].sorted_keys = index[call'.id].sorted_keys
            /\ index'[call'.id].total_records = index[call'.id].total_records]_vars

C14_Witness ==
    /\ call.op = "get_average_error"
    /\ index[call.id].builds >= 1
    /\ call.count = index[call.id].total_records
    /\ call.count > 1

\* ------------------------------------------------------ concurrent readers
\* Each reader is a thread inside lookup, lower_bound or upper_bound.  While
\* readers run, call holds their program counters (pc) and their stack frames.
Readers == 1..NumReaders

\* a frame shared by every reader (what a static local would be)
SharedSlot(r) == 1

\* the frame that holds the locals of reader r's call: key, stage_idx,
\* model_idx, prediction and pos have automatic storage, one set per call
Slot(r) == r

IdlePc == [at |-> "idle", op |-> "none", key |-> 0, ret |-> 0, ub |-> FALSE]
EmptyFrame == [key |-> 0, stage_idx |-> 0, model_idx |-> 0, prediction |-> D(0), pos |-> 0]
NoThreads == [op |-> "readers", pc |-> [r \in Readers |-> IdlePc],
              frame |-> [r \in Readers |-> EmptyFrame]]
Threads == IF call = NoCall THEN NoThreads ELSE call
\* no reader left inside a call: the caller state is NoCall again
Settle(th) == IF \A r \in Readers : th.pc[r] = IdlePc THEN NoCall ELSE th

\* one iteration of lookup's loop over the stages: the frame after it
TraverseStage(ix, f) ==
    LET model == ix.stages[f.stage_idx + 1].models[f.model_idx + 1]
    IN IF model.kind = "null" THEN [f EXCEPT !.stage_idx = @ + 1]
       ELSE IF f.stage_idx + 1 < Len(ix.stages)
            THEN [f EXCEPT !.stage_idx = @ + 1,
                           !.prediction = Predict(model, D(f.key)),
                           !.model_idx = LookupRoute(Predict(model, D(f.key)),
                                             ix.total_records,
                                             Len(ix.stages[f.stage_idx + 2].models))]
            ELSE [f EXCEPT !.stage_idx = @ + 1, !.prediction = Predict(model, D(f.key))]

\* reader r calls op(key): the early return of lookup, or the locals are set up.
\* lower_bound has no locals and returns lookup(key): its reader is in lookup.
Enter(r, op, key) ==
    /\ call = NoCall \/ call.op = "readers"
    /\ Threads.pc[r] = IdlePc
    /\ index[1].builds >= 1
    /\ LET ix == index[1]
           early == Len(ix.stages) = 0 \/ ix.total_records = 0
       IN call' = [Threads EXCEPT
                     !.pc[r] = [at |-> IF ~early THEN "traverse"
                                       ELSE IF op = "upper_bound" THEN "scan" ELSE "done",
                                op |-> IF op = "lower_bound" THEN "lookup" ELSE op,
                                key |-> key, ret |-> 0, ub |-> FALSE],
                     !.frame[Slot(r)] = [EmptyFrame EXCEPT !.key = key]]
    /\ UNCHANGED <<index, sgd>>

\* reader r runs one iteration of the loop over the stages
Descend(r) ==
    /\ call.op = "readers"
    /\ call.pc[r].at = "traverse"
    /\ call.frame[Slot(r)].stage_idx < Len(index[1].stages)
    /\ call' = [call EXCEPT !.frame[Slot(r)] = TraverseStage(index[1], @)]
    /\ UNCHANGED <<index, sgd>>

\* reader r leaves the loop, computes the window and searches it; lookup and
\* lower_bound return, upper_bound goes on to its scan
Search(r) ==
    /\ call.op = "readers"
    /\ call.pc[r].at = "traverse"
    /\ call.frame[Slot(r)].stage_idx >= Len(index[1].stages)
    /\ LET f == call.frame[Slot(r)]
       IN \E l \in LookupOutcomes(index[1], LookupLeaf(index[1], f.key, f)) :
            IF call.pc[r].op = "upper_bound" /\ ~l.ub
            THEN call' = [call EXCEPT !.pc[r].at = "scan",
                                      !.frame[Slot(r)].pos = l.ret]
            ELSE call' = [call EXCEPT !.pc[r].at = "done", !.pc[r].ret = l.ret,
                                      !.pc[r].ub = l.ub,
                                      !.frame[Slot(r)] = EmptyFrame]
    /\ UNCHANGED <<index, sgd>>

\* reader r runs one iteration of upper_bound's scan, or leaves it
Scan(r) ==
    /\ call.op = "readers"
    /\ call.pc[r].at = "scan"
    /\ LET ix == index[1]
           f == call.frame[Slot(r)]
       IN IF ix.total_records = Indeterminate
          THEN \E o \in UBOutcomes(ix) :
                 call' = [call EXCEPT !.pc[r].at = "done", !.pc[r].ret = o,
                                      !.pc[r].ub = TRUE, !.frame[Slot(r)] = EmptyFrame]
          ELSE IF f.pos < ix.total_records /\ ix.sorted_keys[f.pos + 1] <= f.key
          THEN call' = [call EXCEPT !.frame[Slot(r)].pos = @ + 1]
          ELSE call' = [call EXCEPT !.pc[r].at = "done", !.pc[r].ret = f.pos,
                                    !.frame[Slot(r)] = EmptyFrame]
    /\ UNCHANGED <<index, sgd>>

\* reader r's caller takes the result
Leave(r) ==
    /\ call.op = "readers"
    /\ call.pc[r].at = "done"
    /\ call' = Settle([call EXCEPT !.pc[r] = IdlePc])
    /\ UNCHANGED <<index, sgd>>

\* one index, built once before any reader starts, and NumReaders readers
InputsReaders == {<<>>} \cup {Ranked(ks) : ks \in KeySeqs(MaxLenReaders, MaxKeyReaders)}
QueriesReaders == (-1)..(MaxKeyReaders + 1)
ReaderOps == {"lookup", "lower_bound", "upper_bound"}

InitReaders ==
    /\ \E cfg \in ConfigsPair : index = (1 :> NewIndex(cfg))
    /\ call = NoCall
    /\ sgd = <<>>

BuildReaders == \E d \in InputsReaders : index[1].builds = 0 /\ Build(1, d)
EnterReaders == \E r \in Readers, op \in ReaderOps, k \in QueriesReaders : Enter(r, op, k)
DescendReaders == \E r \in Readers : Descend(r)
SearchReaders == \E r \in Readers : Search(r)
ScanReaders == \E r \in Readers : Scan(r)
LeaveReaders == \E r \in Readers : Leave(r)

NextReaders ==
    \/ BuildReaders
    \/ EnterReaders
    \/ DescendReaders
    \/ SearchReaders
    \/ ScanReaders
    \/ LeaveReaders

SpecReaders == InitReaders /\ [][NextReaders]_vars

\* the [ret, ub] pairs a call of op(key) can end with when it runs alone
AloneResults(ix, op, key) ==
    IF op = "upper_bound" THEN UpperBoundResults(ix, key)
    ELSE {[ret |-> l.ret, ub |-> l.ub] : l \in LookupResults(ix, key)}

\* C15: with any number of readers interleaved on a built index, every call
\* that has finished holds a result the same call can return when it runs
\* alone, and a step of one reader changes neither the index nor the program
\* counter or the frame of any other reader.
C15_ConcurrentReaders ==
    /\ [](call.op = "readers" =>
            \A r \in Readers :
                call.pc[r].at = "done" =>
                    [ret |-> call.pc[r].ret, ub |-> call.pc[r].ub]
                        \in AloneResults(index[1], call.pc[r].op, call.pc[r].key))
    /\ [][(call.op = "readers" /\ call'.op = "readers") =>
            /\ index' = index
            /\ \E r \in Readers :
                 \A q \in Readers \ {r} :
                     call'.pc[q] = call.pc[q] /\ call'.frame[q] = call.frame[q]]_vars

C15_Witness ==
    /\ call.op = "readers"
    /\ call.pc[1].at = "done" /\ call.pc[1].op = "upper_bound"
    /\ call.pc[2].at = "traverse" /\ call.pc[2].key # call.pc[1].key
    /\ call.frame[2].stage_idx = 1
    /\ Len(index[1].stages) = 2

\* ------------------------------------------------- invalid configurations
\* The constructor stores any Config.  SpecInvalid runs one index whose
\* stage_sizes is empty or does not start with 1.
ConfigsInvalid ==
    {Config(ss, nl) : ss \in {<<>>, <<2>>, <<2, 2>>, <<3, 1>>}, nl \in HiddenLayerChoices}
InputsInvalid == {<<>>} \cup {Ranked(ks) : ks \in KeySeqs(MaxLenInvalid, MaxKeyInvalid)}
QueriesInvalid == (-1)..(MaxKeyInvalid + 1)

InvalidConfig(cfg) == Len(cfg.stage_sizes) = 0 \/ cfg.stage_sizes[1] # 1
\* a build of ix has read out of range; what the program does from there on is
\* undefined and is followed no further
OutOfRange(ix) == ix.builds >= 1 /\ BuildOutOfRange(ix.config, ix.input)
\* build(data) has returned on ix with its stages trained
Built(ix) == ix.builds >= 1 /\ Len(ix.input) > 0 /\ ~OutOfRange(ix)

InitInvalid ==
    /\ \E cfg \in ConfigsInvalid : index = (1 :> NewIndex(cfg))
    /\ call = NoCall
    /\ sgd = <<>>

BuildInvalid == \E d \in InputsInvalid : index[1].builds = 0 /\ Build(1, d)
LookupInvalid == \E k \in QueriesInvalid : ~OutOfRange(index[1]) /\ Lookup(1, k)
UpperBoundInvalid == \E k \in QueriesInvalid : ~OutOfRange(index[1]) /\ UpperBound(1, k)

NextInvalid == BuildInvalid \/ LookupInvalid \/ UpperBoundInvalid \/ Return

SpecInvalid == InitInvalid /\ [][NextInvalid]_vars

\* C16: an index whose stage_sizes is empty or does not start with 1 never
\* becomes Built, and building it reads neither stage_sizes nor the bucket
\* arrays out of range.
C16_InvalidConfigRejected ==
    \A i \in DOMAIN index :
        InvalidConfig(index[i].config) => ~Built(index[i]) /\ ~OutOfRange(index[i])

\* ------------------------------------------- get_average_error: sampling
\* The loop of get_average_error by its counters alone: call holds
\* total_records, step, the loop index i and count.  The lookups it makes do
\* not touch these.
RecordCounts ==
    (1..SmallRecords)
      \cup {c * SampleCap + d : c \in 1..MaxCaps, d \in (-SampleSlack)..SampleSlack}

\* get_average_error is entered on an index of n > 0 records
EnterSampling(n) ==
    [op |-> "sampling", at |-> "loop", total_records |-> n, step |-> SampleStep(n),
     i |-> 0, count |-> 0]

InitSampling ==
    /\ index = <<>>
    /\ \E n \in RecordCounts : call = EnterSampling(n)
    /\ sgd = <<>>

\* one iteration of the loop: sorted_keys[i] is looked up and counted
SampleOne ==
    /\ call.op = "sampling" /\ call.at = "loop"
    /\ call.i < call.total_records
    /\ call' = [call EXCEPT !.i = @ + call.step, !.count = @ + 1]
    /\ UNCHANGED <<index, sgd>>

\* the loop ends
SampleEnd ==
    /\ call.op = "sampling" /\ call.at = "loop"
    /\ ~(call.i < call.total_records)
    /\ call' = [call EXCEPT !.at = "done"]
    /\ UNCHANGED <<index, sgd>>

NextSampling == SampleOne \/ SampleEnd

SpecSampling == InitSampling /\ [][NextSampling]_vars

\* C17: for every total_records >= 1, get_average_error looks up at most
\* 10,000 keys.
C17_AtMostSampleCap == call.op = "sampling" => call.count <= SampleCap

\* ------------------------------------------------------- build: the buckets
\* stage_data is a local of build.  StageData recomputes it from the input of
\* the last build and the models that build trained, with build's own routing.

\* the loop over the models of stage stage_idx, from model_idx on: the samples
\* of every non-empty bucket are routed into next
RECURSIVE RouteModels(_, _, _, _, _)
RouteModels(ix, stage_idx, stage_data, model_idx, next) ==
    IF model_idx >= Len(stage_data) THEN next
    ELSE RouteModels(ix, stage_idx, stage_data, model_idx + 1,
             IF Len(stage_data[model_idx + 1]) = 0 THEN next
             ELSE RouteData(ix.stages[stage_idx + 1].models[model_idx + 1],
                      stage_data[model_idx + 1], 1, ix.total_records,
                      ix.config.stage_sizes[stage_idx + 2], next))

\* stage_data[stage_idx] of the last build of ix
RECURSIVE StageData(_, _)
StageData(ix, stage_idx) ==
    IF stage_idx = 0
    THEN [m \in 1..ix.config.stage_sizes[1] |-> IF m = 1 THEN SortPairs(ix.input) ELSE <<>>]
    ELSE RouteModels(ix, stage_idx - 1, StageData(ix, stage_idx - 1), 0,
             [m \in 1..ix.config.stage_sizes[stage_idx + 1] |-> <<>>])

\* where a sample lies in the bucket array: <<bucket, place>> pairs (1-based)
Placements(stage_data, n, sample) ==
    {mp \in (1..Len(stage_data)) \X (1..n) :
        mp[2] <= Len(stage_data[mp[1]]) /\ stage_data[mp[1]][mp[2]] = sample}

\* the samples of the buckets of a stage are those of the input, each once
Partitions(stage_data, input) ==
    \A j \in 1..Len(input) : Cardinality(Placements(stage_data, Len(input), input[j])) = 1

\* every sample of every bucket of a stage gets a next-stage index in range
RoutesInRange(ix, stage_idx, stage_data) ==
    \A m \in 1..Len(stage_data) :
        \A p \in 1..Len(stage_data[m]) :
            BuildRoute(ix.stages[stage_idx + 1].models[m], stage_data[m][p][1],
                ix.total_records, ix.config.stage_sizes[stage_idx + 2])
              \in 0..(ix.config.stage_sizes[stage_idx + 2] - 1)

\* C18: after build on a non-empty input, at every stage each training sample
\* lies in exactly one bucket, and at every stage but the last the next-stage
\* index build computes for it is within 0 .. stage_sizes[s+1] - 1.
C18_RoutingTotal ==
    \A i \in DOMAIN index :
        Built(index[i]) =>
            \A s \in 0..(Len(index[i].config.stage_sizes) - 1) :
                /\ Len(StageData(index[i], s)) = index[i].config.stage_sizes[s + 1]
                /\ Partitions(StageData(index[i], s), index[i].input)
                /\ (s + 1 < Len(index[i].config.stage_sizes)
                      => RoutesInRange(index[i], s, StageData(index[i], s)))

C18_Witness ==
    /\ Built(index[1])
    /\ index[1].config.stage_sizes = <<1, 3>>
    /\ index[1].config.num_hidden_layers > 0
    /\ \E m \in 1..3 : Len(StageData(index[1], 1)[m]) = 0
    /\ \E m \in 1..3 : Len(StageData(index[1], 1)[m]) >= 2
    /\ Len(StageData(index[1], 1)[3]) >= 1

\* ------------------------------------------- routing: build against lookup
\* two-stage linear indexes with second stages of 2 .. MaxWidthRoute models
ConfigsRoute == {Config(<<1, w>>, 0) : w \in 2..MaxWidthRoute}
InputsRoute == {<<>>} \cup {Ranked(ks) : ks \in KeySeqs(MaxLenRoute, MaxKeyRoute)}
QueriesRoute == 0..MaxKeyRoute

InitRoute ==
    /\ \E cfg \in ConfigsRoute : index = (1 :> NewIndex(cfg))
    /\ call = NoCall
    /\ sgd = <<>>

BuildRouted == \E d \in InputsRoute : index[1].builds = 0 /\ Build(1, d)
LookupRouted == \E k \in QueriesRoute : Lookup(1, k)

NextRoute == BuildRouted \/ LookupRouted \/ Return

SpecRoute == InitRoute /\ [][NextRoute]_vars

\* the locals of lookup(key) after stage_idx iterations of its loop
RECURSIVE FrameAt(_, _, _)
FrameAt(ix, key, stage_idx) ==
    IF stage_idx = 0 THEN [EmptyFrame EXCEPT !.key = key]
    ELSE TraverseStage(ix, FrameAt(ix, key, stage_idx - 1))

\* C19: on a built index, for every training sample and every stage after the
\* first, the model lookup selects there for the sample's key is the model
\* into whose bucket build routed the sample.
C19_RoutingAgreement ==
    \A i \in DOMAIN index :
        Built(index[i]) =>
            \A j \in 1..Len(index[i].input) :
                Faithful(index[i], index[i].input[j][1]) =>
                    \A s \in 1..(Len(index[i].stages) - 1) :
                        \A mp \in Placements(StageData(index[i], s), Len(index[i].input),
                                             index[i].input[j]) :
                            FrameAt(index[i], index[i].input[j][1], s).model_idx = mp[1] - 1

\* --------------------------------------------------- build: empty buckets
\* the model of an empty bucket is a linear model that predicts 0 for every
\* key, and both its error bounds are 0
ZeroModel(stage, m) ==
    /\ stage.models[m].kind = "linear"
    /\ stage.models[m].slope = D(0)
    /\ stage.models[m].intercept = D(0)
    /\ stage.min_errors[m] = D(0)
    /\ stage.max_errors[m] = D(0)

\* C20: after a build on a non-empty input, every model whose bucket was empty
\* in that build is a linear model predicting 0 with min_error = max_error = 0.
C20_EmptyBucketTolerance ==
    \A i \in DOMAIN index :
        Built(index[i]) =>
            \A s \in 0..(Len(index[i].config.stage_sizes) - 1) :
                \A m \in 1..index[i].config.stage_sizes[s + 1] :
                    Len(StageData(index[i], s)[m]) = 0
                        => ZeroModel(index[i].stages[s + 1], m)

\* ------------------------------------------------------- leaf error bounds
\* the last stage of ix and the buckets its models were trained on
LastStage(ix) == Len(ix.config.stage_sizes)
LeafData(ix) == StageData(ix, LastStage(ix) - 1)

\* min_errors[m] <= 0 <= max_errors[m] for the 1-based model m of stage
StraddlesZero(stage, m) ==
    DLeq(stage.min_errors[m], D(0)) /\ DLeq(D(0), stage.max_errors[m])

\* C21: after build, every last-stage model with a non-empty bucket has
\* min_error <= 0 <= max_error.
C21_LeafBoundsStraddleZero ==
    \A i \in DOMAIN index :
        (BuiltOnce(index[i]) /\ BuiltExactly(index[i]))
            => \A m \in 1..index[i].config.stage_sizes[LastStage(index[i])] :
                  Len(LeafData(index[i])[m]) > 0
                     => StraddlesZero(index[i].stages[LastStage(index[i])], m)

\* ---------------------------------------------------- IEEE-754 binary64
\* natural numbers of any size: little-endian sequences of 15-bit limbs, the
\* last limb non-zero (<<>> is 0)
Limb == 2 ^ 15

BLimb(a, i) == IF 1 <= i /\ i <= Len(a) THEN a[i] ELSE 0

\* a without its leading zero limbs
BTop(a) ==
    SubSeq(a, 1, Cardinality({i \in 1..Len(a) : \E j \in i..Len(a) : a[j] # 0}))
BTrim(a) == BTop(<<>> \o a)

\* the natural number i < 2^31
BN(i) == BTrim(<<i % Limb, (i \div Limb) % Limb, i \div (Limb * Limb)>>)

\* whether a + b carries into limb i
BCarry(a, b, i) ==
    \E j \in 1..(i - 1) :
        /\ BLimb(a, j) + BLimb(b, j) >= Limb
        /\ \A k \in (j + 1)..(i - 1) : BLimb(a, k) + BLimb(b, k) = Limb - 1
BAddLimbs(a, b, n) ==
    BTrim([i \in 1..n |->
             (BLimb(a, i) + BLimb(b, i) + (IF BCarry(a, b, i) THEN 1 ELSE 0)) % Limb])
BAdd(a, b) == BAddLimbs(a, b, (IF Len(a) > Len(b) THEN Len(a) ELSE Len(b)) + 1)

\* whether a - b borrows from limb i
BBorrow(a, b, i) ==
    \E j \in 1..(i - 1) :
        /\ a[j] < BLimb(b, j)
        /\ \A k \in (j + 1)..(i - 1) : a[k] = BLimb(b, k)
\* a - b for a >= b
BSub(a, b) ==
    BTrim([i \in 1..Len(a) |->
             (a[i] - BLimb(b, i) - (IF BBorrow(a, b, i) THEN 1 ELSE 0) + Limb) % Limb])

\* -1, 0, 1 as a < b, a = b, a > b
BCmp(a, b) ==
    IF Len(a) < Len(b) THEN -1
    ELSE IF Len(a) > Len(b) THEN 1
    ELSE IF \E i \in 1..Len(a) : a[i] > b[i] /\ \A k \in (i + 1)..Len(a) : a[k] = b[k]
         THEN 1
    ELSE IF \E i \in 1..Len(a) : a[i] # b[i] THEN -1
    ELSE 0

\* a * k for a limb k: the low halves of the limb products plus their high
\* halves one limb up
BMulSmall(a, k) ==
    BAdd(BTrim([i \in 1..Len(a) |-> (a[i] * k) % Limb]),
         BTrim(<<0>> \o [i \in 1..Len(a) |-> (a[i] * k) \div Limb]))

BShiftLimbs(a, q) == IF Len(a) = 0 THEN a ELSE [i \in 1..q |-> 0] \o a

RECURSIVE BMulFrom(_, _, _)
BMulFrom(a, b, j) ==
    IF j > Len(b) THEN <<>>
    ELSE BAdd(BShiftLimbs(BMulSmall(a, b[j]), j - 1), BMulFrom(a, b, j + 1))
BMul(a, b) == BMulFrom(a, b, 1)

\* a * 2^k
BShl(a, k) == BShiftLimbs(BMulSmall(a, 2 ^ (k % 15)), k \div 15)

\* floor(a / 2^r) for r < 15, and floor(a / 2^k)
BShrBits(a, r) ==
    BTrim([i \in 1..Len(a) |->
             a[i] \div (2 ^ r) + (BLimb(a, i + 1) % (2 ^ r)) * (2 ^ (15 - r))])
BShr(a, k) ==
    IF k \div 15 >= Len(a) THEN <<>>
    ELSE BShrBits(SubSeq(a, k \div 15 + 1, Len(a)), k % 15)

\* the number of bits of a limb and of a
BitLen(x) == Cardinality({k \in 0..14 : 2 ^ k <= x})
BBits(a) == IF Len(a) = 0 THEN 0 ELSE 15 * (Len(a) - 1) + BitLen(a[Len(a)])
BOdd(a) == Len(a) > 0 /\ a[1] % 2 = 1

\* the digit d with b * d <= r < b * (d + 1), for r < b * 2^15 and a b whose
\* top limb has its top bit set: the quotient of the two top limbs of r by
\* the top limb of b is d, d + 1 or d + 2
DigitGuess(r, b) ==
    (BLimb(r, Len(b) + 1) * Limb + BLimb(r, Len(b))) \div b[Len(b)]
DigitFit(r, b, d) ==
    IF BCmp(BMulSmall(b, d), r) <= 0 THEN d
    ELSE IF BCmp(BMulSmall(b, d - 1), r) <= 0 THEN d - 1
    ELSE d - 2
Digit(r, b) ==
    DigitFit(r, b, IF DigitGuess(r, b) > Limb - 1 THEN Limb - 1 ELSE DigitGuess(r, b))

\* long division of a by b (top bit of the top limb set), a limb at a time from
\* limb Len(a) - Len(b) + 1 down to limb i, the limbs above being the first
\* partial remainder: [q, r], q with possible leading zero limbs
BDivSet(q, r, b, d) == [q |-> <<d>> \o q, r |-> BSub(r, BMulSmall(b, d))]
BDivPut(q, r, b) == BDivSet(q, r, b, Digit(r, b))
BDivDigit(prev, limb, b) ==
    IF Len(prev.r) = 0 /\ limb = 0 THEN [q |-> <<0>> \o prev.q, r |-> <<>>]
    ELSE BDivPut(prev.q, BTrim(<<limb>> \o prev.r), b)
RECURSIVE BDivModC(_, _, _)
BDivModC(a, b, i) ==
    IF i > Len(a) - Len(b) + 1 THEN [q |-> <<>>, r |-> SubSeq(a, i, Len(a))]
    ELSE BDivDigit(BDivModC(a, b, i + 1), a[i], b)
BDivTrim(qr) == [q |-> BTrim(qr.q), r |-> qr.r]
BDivMod(a, b) == BDivTrim(BDivModC(a, b, 1))

\* a double: NaN, an infinity of sign s, or (-1)^s * m * 2^e with m odd or 0
FNaN == [k |-> "nan", s |-> 0, m |-> <<>>, e |-> 0]
FInf(s) == [k |-> "inf", s |-> s, m |-> <<>>, e |-> 0]
FZero == [k |-> "fin", s |-> 0, m |-> <<>>, e |-> 0]

\* number of trailing zero bits of m > 0, of which z whole limbs
LowZerosAt(m, z) == 15 * z + Cardinality({k \in 1..14 : m[z + 1] % (2 ^ k) = 0})
LowZeros(m) ==
    LowZerosAt(m, Cardinality({i \in 1..Len(m) : \A j \in 1..i : m[j] = 0}))

\* the finite value (-1)^s * m * 2^e, exactly representable, in canonical form
FCanon(s, m, e, z) == [k |-> "fin", s |-> s, m |-> BShr(m, z), e |-> e + z]
FExact(s, m, e) == IF Len(m) = 0 THEN FZero ELSE FCanon(s, m, e, LowZeros(m))

\* the quotient q of m by 2^sh rounded to nearest, ties to even: c compares
\* the dropped bits with half a unit, sticky tells of non-zero bits below m
RoundPick(q, c, sticky) ==
    IF c > 0 \/ (c = 0 /\ (sticky \/ BOdd(q))) THEN BAdd(q, <<1>>) ELSE q
RoundShift(m, sh, sticky) ==
    RoundPick(BShr(m, sh),
              BCmp(BSub(m, BShl(BShr(m, sh), sh)), BShl(<<1>>, sh - 1)), sticky)

\* (-1)^s * m * 2^e for m < 2^54; 2^1024 and above is an infinity
FPack(s, m, e) == IF BBits(m) + e > 1024 THEN FInf(s) ELSE FExact(s, m, e)

\* round-to-nearest-even of (-1)^s * (m + sticky) * 2^e: sh low bits are
\* dropped, those below the 53 significant bits or below 2^-1074 (the unit of
\* the subnormal doubles)
FRoundAt(s, m, e, sticky, sh) ==
    IF sh <= 0 THEN FPack(s, m, e) ELSE FPack(s, RoundShift(m, sh, sticky), e + sh)
FRound(s, m, e, sticky) ==
    FRoundAt(s, m, e, sticky,
             IF BBits(m) - 53 > -1074 - e THEN BBits(m) - 53 ELSE -1074 - e)

\* static_cast<double>(i) of a small integer
FInt(i) == IF i < 0 THEN FExact(1, BN(-i), 0) ELSE FExact(0, BN(i), 0)

FIsZero(a) == a.k = "fin" /\ Len(a.m) = 0
FNeg(a) == IF a.k = "nan" \/ FIsZero(a) THEN a ELSE [a EXCEPT !.s = 1 - a.s]
FAbs(a) == [a EXCEPT !.s = 0]

\* the sum of two finite non-zero doubles with the mantissas am, bm at 2^e
FAddAligned(as, am, bs, bm, e) ==
    IF as = bs THEN FRound(as, BAdd(am, bm), e, FALSE)
    ELSE IF BCmp(am, bm) = 0 THEN FZero
    ELSE IF BCmp(am, bm) > 0 THEN FRound(as, BSub(am, bm), e, FALSE)
    ELSE FRound(bs, BSub(bm, am), e, FALSE)
FAddAt(a, b, e) == FAddAligned(a.s, BShl(a.m, a.e - e), b.s, BShl(b.m, b.e - e), e)

\* the exponent above the leading bit of a finite non-zero double
FTop(a) == a.e + BBits(a.m)

\* a + b; an addend below 2^-64 of the other does not change it
FAdd(a, b) ==
    IF a.k = "nan" \/ b.k = "nan" THEN FNaN
    ELSE IF a.k = "inf" THEN (IF b.k = "inf" /\ b.s # a.s THEN FNaN ELSE a)
    ELSE IF b.k = "inf" THEN b
    ELSE IF FIsZero(a) THEN b
    ELSE IF FIsZero(b) THEN a
    ELSE IF FTop(a) > FTop(b) + 64 THEN a
    ELSE IF FTop(b) > FTop(a) + 64 THEN b
    ELSE FAddAt(a, b, IF a.e < b.e THEN a.e ELSE b.e)

FSub(a, b) == FAdd(a, FNeg(b))

FMul(a, b) ==
    IF a.k = "nan" \/ b.k = "nan" THEN FNaN
    ELSE IF a.k = "inf" \/ b.k = "inf"
         THEN (IF FIsZero(a) \/ FIsZero(b) THEN FNaN ELSE FInf((a.s + b.s) % 2))
    ELSE IF FIsZero(a) \/ FIsZero(b) THEN FZero
    ELSE FRound((a.s + b.s) % 2, BMul(a.m, b.m), a.e + b.e, FALSE)

\* the quotient of two finite non-zero doubles: the dividend is scaled by
\* 2^k so that the integer quotient has at least 55 bits, and both by 2^t so
\* that the top bit of the divisor's top limb is set
FDivPack(s, qr, e) == FRound(s, qr.q, e, Len(qr.r) > 0)
FDivNorm(a, b, k, t) ==
    FDivPack((a.s + b.s) % 2, BDivMod(BShl(a.m, k + t), BShl(b.m, t)), a.e - b.e - k)
FDivAt(a, b, k) == FDivNorm(a, b, IF k > 0 THEN k ELSE 0, (15 - (BBits(b.m) % 15)) % 15)

FDiv(a, b) ==
    IF a.k = "nan" \/ b.k = "nan" THEN FNaN
    ELSE IF a.k = "inf" THEN (IF b.k = "inf" THEN FNaN ELSE FInf((a.s + b.s) % 2))
    ELSE IF b.k = "inf" THEN FZero
    ELSE IF FIsZero(b) THEN (IF FIsZero(a) THEN FNaN ELSE FInf((a.s + b.s) % 2))
    ELSE IF FIsZero(a) THEN FZero
    ELSE FDivAt(a, b, 55 + BBits(b.m) - BBits(a.m))

\* a < b
FNegative(d) == d.k # "nan" /\ d.s = 1 /\ (d.k = "inf" \/ Len(d.m) > 0)
FLess(a, b) ==
    IF a.k = "nan" \/ b.k = "nan" THEN FALSE
    ELSE IF a.k = "inf" /\ b.k = "inf" THEN a.s > b.s
    ELSE FNegative(FSub(a, b))

\* the double literal 1e-10 = 7737125245533627 * 2^-86
FEps == FExact(0, <<15803, 13231, 29567, 219>>, -86)

\* ---------------------------------------------- LinearModel in binary64
\* LinearModel::train and LinearModel::predict with every operation rounded
\* as the double arithmetic of the program rounds it
FLinearNew == [slope |-> FZero, intercept |-> FZero]
FLinearPredict(m, key) == FAdd(FMul(m.slope, key), m.intercept)

\* the sums of the regression loop after the first j samples
FLinearAdd(acc, key, pos) ==
    [sum_x  |-> FAdd(acc.sum_x, key),
     sum_y  |-> FAdd(acc.sum_y, FInt(pos)),
     sum_xy |-> FAdd(acc.sum_xy, FMul(key, FInt(pos))),
     sum_x2 |-> FAdd(acc.sum_x2, FMul(key, key))]
RECURSIVE FLinearSums(_, _)
FLinearSums(data, j) ==
    IF j = 0 THEN [sum_x |-> FZero, sum_y |-> FZero, sum_xy |-> FZero, sum_x2 |-> FZero]
    ELSE FLinearAdd(FLinearSums(data, j - 1), data[j][1], data[j][2])

FLinearFit(m, n, s, mean_x, mean_y, denominator) ==
    IF FLess(FAbs(denominator), FEps)
    THEN [m EXCEPT !.slope = FZero, !.intercept = mean_y]
    ELSE LET slope == FDiv(FSub(s.sum_xy, FMul(FMul(n, mean_x), mean_y)), denominator)
         IN [m EXCEPT !.slope = slope, !.intercept = FSub(mean_y, FMul(slope, mean_x))]
FLinearMeans(m, n, s, mean_x, mean_y) ==
    FLinearFit(m, n, s, mean_x, mean_y, FSub(s.sum_x2, FMul(FMul(n, mean_x), mean_x)))
FLinearStats(m, n, s) == FLinearMeans(m, n, s, FDiv(s.sum_x, n), FDiv(s.sum_y, n))
FLinearTrain(m, data) ==
    IF Len(data) = 0 THEN m
    ELSE FLinearStats(m, FInt(Len(data)), FLinearSums(data, Len(data)))

\* ------------------------------------------------ LinearModel::train alone
\* the double (hi * 2^30 + lo) * 2^e
FDouble(hi, lo, e) == FExact(0, BAdd(BShl(BN(hi), 30), BN(lo)), e)

\* the keys of SpecFit: 1.0, 256.7 (the double 0x100b3333333333 * 2^-44) and
\* 362.9 (the double 0xb573333333333 * 2^-43)
KeysFit ==
    {FInt(1), FDouble(4205772, 858993459, -44), FDouble(2972876, 858993459, -43)}

\* a bucket of build: n samples sorted by key, pos counting up from 0
RankedFit(keys) == [j \in 1..Len(keys) |-> <<keys[j], j - 1>>]
KeyLeq(a, b) == ~FLess(b, a)
InputsFit ==
    UNION {{RankedFit(ks) : ks \in {s \in [1..n -> KeysFit] :
                                     \A j \in 1..(n - 1) : KeyLeq(s[j], s[j + 1])}} :
             n \in 1..MaxLenFit}

InitFit ==
    /\ index = <<>>
    /\ \E data \in InputsFit : call = [op |-> "fit", at |-> "start", data |-> data]
    /\ sgd = <<>>

\* model.train(data) on a fresh LinearModel
TrainFit ==
    /\ call.op = "fit" /\ call.at = "start"
    /\ call' = [op |-> "fit", at |-> "trained", data |-> call.data,
                model |-> FLinearTrain(FLinearNew, call.data)]
    /\ UNCHANGED <<index, sgd>>

\* model.predict(key)
PredictFit ==
    /\ call.op = "fit" /\ call.at = "trained"
    /\ \E key \in KeysFit :
          call' = [op |-> "fit", at |-> "predicted", data |-> call.data,
                   model |-> call.model, key |-> key,
                   ret |-> FLinearPredict(call.model, key)]
    /\ UNCHANGED <<index, sgd>>

NextFit == TrainFit \/ PredictFit
SpecFit == InitFit /\ [][NextFit]_vars

\* the keys of data are all equal
EqualKeys(data) == \A j \in 1..Len(data) : data[j][1] = data[1][1]

\* the mean of the positions 0 .. n - 1 of a bucket of n samples
MeanPos(n) == FDiv(FInt((n * (n - 1)) \div 2), FInt(n))

\* C22: LinearModel::train on a non-empty bucket whose keys are all equal sets
\* slope = 0 and intercept = the mean of the positions, and predict then
\* returns that mean for every key.
C22_DegenerateFit ==
    (call.op = "fit" /\ call.at # "start" /\ EqualKeys(call.data))
        => /\ call.model.slope = FZero
           /\ call.model.intercept = MeanPos(Len(call.data))
           /\ (call.at = "predicted" => call.ret = MeanPos(Len(call.data)))

\* ------------------------------------------------------- the neural root
\* whether the root model of ix is a NeuralNetModel that build trained
NeuralRoot(ix) ==
    /\ BuiltOnce(ix)
    /\ Len(ix.stages) > 0
    /\ ix.stages[1].models[1].kind = "neural"
RootModel(ix) == ix.stages[1].models[1]

\* C23: after NeuralNetModel::train on N >= 1 samples y_max equals
\* max(N - 1, 1); it is never 0.
C23_TargetScale ==
    \A i \in DOMAIN index :
        NeuralRoot(index[i])
            => /\ RootModel(index[i]).y_max
                    = D(IF Len(index[i].input) - 1 > 1 THEN Len(index[i].input) - 1 ELSE 1)
               /\ RootModel(index[i]).y_max # D(0)

\* the number of layers of m whose outputs pass through ReLU in predict: all
\* but the last
HiddenLayers(m) == {l \in 0..(m.num_layers - 1) : l < m.num_layers - 1}

\* C25: a neural model created with hidden_size = H and num_hidden_layers =
\* L >= 1 has exactly L hidden layers of width H with ReLU activation,
\* followed by a single linear output neuron.
C25_NetworkShape ==
    \A i \in DOMAIN index :
        NeuralRoot(index[i])
            => /\ Cardinality(HiddenLayers(RootModel(index[i])))
                    = index[i].config.num_hidden_layers
               /\ \A l \in HiddenLayers(RootModel(index[i])) :
                     Len(RootModel(index[i]).biases[l + 1]) = index[i].config.hidden_size
               /\ Len(RootModel(index[i]).biases[RootModel(index[i]).num_layers]) = 1

\* ------------------------------------------------ NeuralNetModel::train alone
\* Keys are doubles; the indexes above are built from whole keys only.  Here
\* one model is trained on sorted samples whose keys are taken from KeysScale
\* (0, 1/2, 1, 13/4, 7/2, 250), pos being the rank of the sample, and a key is
\* then normalised as predict does.
KeysScale ==
    {D(0), [n |-> 1, d |-> 2], D(1), [n |-> 13, d |-> 4], [n |-> 7, d |-> 2], D(250)}

InputsScale ==
    {ks \in UNION {[1..n -> KeysScale] : n \in 1..MaxLenScale} :
        \A j \in 1..(Len(ks) - 1) : DLeq(ks[j], ks[j + 1])}

InitScale ==
    /\ index = <<>>
    /\ \E ks \in InputsScale : call = [op |-> "scale", at |-> "start", keys |-> ks]
    /\ sgd = <<>>

TrainScale ==
    /\ call.op = "scale" /\ call.at = "start"
    /\ \E o \in SGDOutcomes :
          call' = [op |-> "scale", at |-> "trained", keys |-> call.keys,
                   model |-> NeuralTrainKeys(NeuralNew(HiddenSizeScale, 1), Len(call.keys),
                                             call.keys[1], call.keys[Len(call.keys)], o)]
    /\ UNCHANGED <<index, sgd>>

\* x = (transformed_key - x_min_) / x_range_ of predict
NormalizeScale ==
    /\ call.op = "scale" /\ call.at = "trained"
    /\ \E key \in KeysScale :
          call' = [op |-> "scale", at |-> "normalized", keys |-> call.keys,
                   model |-> call.model,
                   x |-> DDiv(DSub(Transform(call.model.use_log, key), call.model.x_min),
                              call.model.x_range)]
    /\ UNCHANGED <<index, sgd>>

NextScale == TrainScale \/ NormalizeScale
SpecScale == InitScale /\ [][NextScale]_vars

\* C24: after NeuralNetModel::train x_range equals max(x_max - x_min, 1), for
\* every training input, also when the (possibly log-transformed) keys span
\* more than 0 and less than 1.
C24_InputScale ==
    (call.op = "scale" /\ call.at # "start")
        => call.model.x_range = StdMax(DSub(call.model.x_max, call.model.x_min), D(1))

\* ------------------------------------------------ the reserved Config fields
\* two index objects whose configurations agree in stage_sizes, hidden_size
\* and num_hidden_layers and take error_threshold and use_hybrid freely
ErrorThresholds == {DefaultErrorThreshold, 0}
Reserve(cfg, error_threshold, use_hybrid) ==
    [cfg EXCEPT !.error_threshold = error_threshold, !.use_hybrid = use_hybrid]
ConfigsReserved ==
    {Reserve(cfg, e, h) : cfg \in ConfigsPair, e \in ErrorThresholds, h \in BOOLEAN}
InputsReserved == {Ranked(ks) : ks \in KeySeqs(MaxLenReserved, MaxKeyReserved)}
QueriesReserved == (-1)..(MaxKeyReserved + 1)

InitReserved ==
    /\ \E cfg \in ConfigsReserved : index = (1 :> NewIndex(cfg))
    /\ call = NoCall
    /\ sgd = <<>>

ConstructReserved ==
    \E e \in ErrorThresholds, h \in BOOLEAN : Construct(2, Reserve(index[1].config, e, h))
BuildReserved ==
    \E i \in DOMAIN index, d \in InputsReserved : index[i].builds < 1 /\ Build(i, d)
LookupReserved == \E i \in DOMAIN index, k \in QueriesReserved : Lookup(i, k)
UpperBoundReserved == \E i \in DOMAIN index, k \in QueriesReserved : UpperBound(i, k)

NextReserved ==
    ConstructReserved \/ BuildReserved \/ LookupReserved \/ UpperBoundReserved \/ Return

SpecReserved == InitReserved /\ [][NextReserved]_vars

\* two once-built indexes of one input whose configurations differ, and only in
\* error_threshold and use_hybrid
SameButReserved(i, j) ==
    /\ i # j
    /\ BuiltOnce(index[i]) /\ BuiltOnce(index[j])
    /\ index[i].input = index[j].input
    /\ index[i].config # index[j].config
    /\ Reserve(index[i].config, 0, FALSE) = Reserve(index[j].config, 0, FALSE)

ReservedOptionsDefined ==
    \A i \in DOMAIN index : \A j \in DOMAIN index :
        SameButReserved(i, j)
            => /\ index[i].stages = index[j].stages
               /\ (call.op = "lookup" /\ call.id = i /\ ~call.ub)
                     => \A l \in LookupResults(index[j], call.key) : l.ret = call.ret
               /\ (call.op = "upper_bound" /\ call.id = i /\ ~call.ub)
                     => \A u \in UpperBoundResults(index[j], call.key) : u.ret = call.ret

\* -------------------------------------------------------- the B-tree baseline
\* BTree<Key, Value, PAGE_SIZE>: a Node is [is_leaf, keys, values, children],
\* children holding the child nodes themselves.
LeafNode(keys, values) ==
    [is_leaf |-> TRUE, keys |-> keys, values |-> values, children |-> <<>>]
InnerNode(keys, children) ==
    [is_leaf |-> FALSE, keys |-> keys, values |-> <<>>, children |-> children]

\* the number of nodes that hold n entries, page_size to a node
PageCount(n, page_size) == (n + page_size - 1) \div page_size
PageFirst(c, page_size) == (c - 1) * page_size + 1
PageLast(c, page_size, n) == IF c * page_size < n THEN c * page_size ELSE n

\* build, first loop: the leaves, each filled to page_size before the next
BTreeLeaves(sorted_data, page_size) ==
    [c \in 1..PageCount(Len(sorted_data), page_size) |->
        LeafNode([j \in 1..(PageLast(c, page_size, Len(sorted_data)) - PageFirst(c, page_size) + 1)
                    |-> sorted_data[PageFirst(c, page_size) + j - 1][1]],
                 [j \in 1..(PageLast(c, page_size, Len(sorted_data)) - PageFirst(c, page_size) + 1)
                    |-> sorted_data[PageFirst(c, page_size) + j - 1][2]])]

\* leaf->keys.front(): of an empty vector it is undefined, and reads front
KeysFront(node, front) == IF Len(node.keys) = 0 THEN front ELSE node.keys[1]

\* one pass of the bottom-up loop: every parent takes page_size children and,
\* for each child but its first, the key keys.front() of that child
BTreeParents(leaves, page_size, front) ==
    [c \in 1..PageCount(Len(leaves), page_size) |->
        InnerNode([j \in 1..(PageLast(c, page_size, Len(leaves)) - PageFirst(c, page_size))
                     |-> KeysFront(leaves[PageFirst(c, page_size) + j], front)],
                  [j \in 1..(PageLast(c, page_size, Len(leaves)) - PageFirst(c, page_size) + 1)
                     |-> leaves[PageFirst(c, page_size) + j - 1]])]

\* whether that pass calls front() on the empty key vector of a child
FrontOfEmpty(leaves, page_size) ==
    \E j \in 1..Len(leaves) : (j - 1) % page_size # 0 /\ Len(leaves[j].keys) = 0

\* while (leaves.size() > 1): the levels left, and whether a pass was undefined
RECURSIVE BTreeLevels(_, _, _, _)
BTreeLevels(leaves, page_size, front, ub) ==
    IF Len(leaves) <= 1 THEN [leaves |-> leaves, ub |-> ub]
    ELSE BTreeLevels(BTreeParents(leaves, page_size, front), page_size, front,
                     ub \/ FrontOfEmpty(leaves, page_size))

NewBTree(page_size) ==
    [page_size |-> page_size, root |-> LeafNode(<<>>, <<>>), total_size |-> 0,
     builds |-> 0, input |-> <<>>, ub |-> FALSE]

\* BTree::build(sorted_data)
BTreeBuild(tree, sorted_data, front) ==
    IF Len(sorted_data) = 0
    THEN [tree EXCEPT !.root = LeafNode(<<>>, <<>>), !.total_size = 0,
                      !.builds = @ + 1, !.input = sorted_data, !.ub = FALSE]
    ELSE LET top == BTreeLevels(BTreeLeaves(sorted_data, tree.page_size),
                                tree.page_size, front, FALSE)
         IN [tree EXCEPT !.root = top.leaves[1], !.total_size = Len(sorted_data),
                         !.builds = @ + 1, !.input = sorted_data, !.ub = top.ub]

RECURSIVE count_keys(_)
count_keys(node) ==
    IF node.is_leaf THEN Len(node.keys)
    ELSE LET RECURSIVE Sum(_)
             Sum(i) == IF i = 0 THEN 0 ELSE Sum(i - 1) + count_keys(node.children[i])
         IN Sum(Len(node.children))

\* the child that std::lower_bound over node->keys selects, 0-based
ChildIndex(node, key) ==
    LET idx == StdLowerBound(node.keys, 0, Len(node.keys), key)
    IN IF idx >= Len(node.children) THEN Len(node.children) - 1 ELSE idx

RECURSIVE ChildOffset(_, _, _)
ChildOffset(node, idx, offset) ==
    IF idx = 0 THEN offset
    ELSE ChildOffset(node, idx - 1, offset) + count_keys(node.children[idx])

RECURSIVE lower_bound_in_node(_, _, _)
lower_bound_in_node(node, key, offset) ==
    IF node.is_leaf THEN offset + StdLowerBound(node.keys, 0, Len(node.keys), key)
    ELSE lower_bound_in_node(node.children[ChildIndex(node, key) + 1], key,
                             ChildOffset(node, ChildIndex(node, key), offset))

\* find: the value stored with key, or "nullptr"
RECURSIVE find_in_node(_, _)
find_in_node(node, key) ==
    IF node.is_leaf
    THEN LET idx == StdLowerBound(node.keys, 0, Len(node.keys), key)
         IN IF idx < Len(node.keys) /\ node.keys[idx + 1] = key
            THEN node.values[idx + 1] ELSE "nullptr"
    ELSE find_in_node(node.children[ChildIndex(node, key) + 1], key)

PageSizes == 2..MaxPageSize
InputsBTree == {<<>>} \cup {Ranked(ks) : ks \in KeySeqs(MaxLenBTree, MaxKeyBTree)}
QueriesBTree == (-1)..(MaxKeyBTree + 1)

InitBTree ==
    /\ \E page_size \in PageSizes : index = (1 :> NewBTree(page_size))
    /\ call = NoCall
    /\ sgd = <<>>

BuildBTree ==
    /\ call = NoCall
    /\ index[1].builds < 1
    /\ \E sorted_data \in InputsBTree, front \in 0..MaxKeyBTree :
          index' = [index EXCEPT ![1] = BTreeBuild(@, sorted_data, front)]
    /\ UNCHANGED <<call, sgd>>

LowerBoundBTree ==
    /\ call = NoCall
    /\ \E key \in QueriesBTree :
          call' = [op |-> "btree_lower_bound", id |-> 1, key |-> key,
                   ret |-> lower_bound_in_node(index[1].root, key, 0)]
    /\ UNCHANGED <<index, sgd>>

FindBTree ==
    /\ call = NoCall
    /\ \E key \in QueriesBTree :
          call' = [op |-> "btree_find", id |-> 1, key |-> key,
                   ret |-> find_in_node(index[1].root, key)]
    /\ UNCHANGED <<index, sgd>>

NextBTree == BuildBTree \/ LowerBoundBTree \/ FindBTree \/ Return
SpecBTree == InitBTree /\ [][NextBTree]_vars

\* the keys of the input of the tree, in order
InputKeys(tree) == [j \in 1..Len(tree.input) |-> tree.input[j][1]]

\* C27: for every sorted input and every PAGE_SIZE >= 2, a tree of any height,
\* BTree::build completes without reading an empty key vector and
\* BTree::lower_bound(key) returns the smallest index i with keys[i] >= key,
\* or N if there is none.
C27_BTreeLowerBound ==
    index[1].builds = 1
        => /\ ~index[1].ub
           /\ call.op = "btree_lower_bound"
                 => call.ret = CountBelow(InputKeys(index[1]), call.key)

\* ------------------------------------------------------------------ rebuild
\* the keys of data in non-decreasing order
KeysSorted(data) == [j \in 1..Len(data) |-> SortPairs(data)[j][1]]

\* C28: after build(d1) followed by build(d2) on the same index, both
\* non-empty, the key array has length total_records and holds exactly the
\* sorted keys of d2.
C28_RebuildReplaces ==
    [][\A i \in DOMAIN index :
          (/\ BuiltOnce(index[i])
           /\ index'[i].builds = 2
           /\ Len(index'[i].input) > 0)
              => /\ Len(index'[i].sorted_keys) = index'[i].total_records
                 /\ index'[i].sorted_keys = KeysSorted(index'[i].input)]_vars

\* ------------------------------------------------------------- a Fresh index
\* an index that was never built, or on which build was only called with
\* empty input
Fresh(ix) == ix.builds <= 1 /\ Len(ix.input) = 0

\* C29: on a Fresh index lookup, lower_bound and upper_bound return 0 for
\* every key and get_average_error returns 0, and none of them reads
\* total_records before it has been assigned or an element of the empty key
\* array.
C29_FreshQueries ==
    (/\ call.op \in {"lookup", "lower_bound", "upper_bound", "get_average_error"}
     /\ Fresh(index[call.id]))
        => /\ ~call.ub
           /\ call.ret = IF call.op = "get_average_error" THEN D(0) ELSE 0

\* the same, of lookup and lower_bound only
FreshLookups ==
    (call.op \in {"lookup", "lower_bound"} /\ Fresh(index[call.id]))
        => ~call.ub /\ call.ret = 0

\* ------------------------------------------------ the average error statistic
\* the 0-based indices get_average_error samples: 0, step, 2 * step, ...
SampledIndices(ix) ==
    {i \in 0..(ix.total_records - 1) : i % SampleStep(ix.total_records) = 0}

\* whether lookup returns, for every sampled key, the index of its first
\* occurrence in the key array, in a run computed here as the program does
ExactOnSamples(ix) ==
    \A i \in SampledIndices(ix) :
        /\ Faithful(ix, ix.sorted_keys[i + 1])
        /\ \A l \in LookupResults(ix, ix.sorted_keys[i + 1]) :
              ~l.ub /\ l.ret = FirstOccurrence(ix.sorted_keys, ix.sorted_keys[i + 1])

\* C30: if lookup returns the first-occurrence rank for every sampled
\* training key, get_average_error returns 0, also for inputs that contain
\* duplicate keys.
C30_ExactAverageError ==
    (/\ call.op = "get_average_error"
     /\ BuiltOnce(index[call.id])
     /\ ExactOnSamples(index[call.id]))
        => ~call.ub /\ call.ret = D(0)

====
